---- MODULE Spec2Model ----
(***************************************************************************)
(* A model of the conversation decision engine of the scam honeypot:       *)
(*   - SessionManager of guvi_hackathon_api.py (extraction, scam typing,   *)
(*     session merge, one-time callback),                                   *)
(*   - AIEnhancedOrchestrator of openrouter_integration.py (sessions,       *)
(*     turn counting, intelligence list), also with concurrent turns,       *)
(*   - PsychologicalFatigueTracker of full_honeypot_system.py.              *)
(* Message texts are strings; the regular expressions of the extractors     *)
(* are modelled character by character.                                     *)
(***************************************************************************)
EXTENDS Integers, Sequences, FiniteSets, Bags, TLC

(***************************************************************************)
(* Strings and the regular-expression primitives of Python's re module.     *)
(***************************************************************************)
Digits == {"0", "1", "2", "3", "4", "5", "6", "7", "8", "9"}

LowerLetters == {"a", "b", "c", "d", "e", "f", "g", "h", "i", "j", "k", "l", "m",
                 "n", "o", "p", "q", "r", "s", "t", "u", "v", "w", "x", "y", "z"}

UpperLetters == {"A", "B", "C", "D", "E", "F", "G", "H", "I", "J", "K", "L", "M",
                 "N", "O", "P", "Q", "R", "S", "T", "U", "V", "W", "X", "Y", "Z"}

LowerOf == [c \in UpperLetters |->
              CASE c = "A" -> "a" [] c = "B" -> "b" [] c = "C" -> "c" [] c = "D" -> "d"
                [] c = "E" -> "e" [] c = "F" -> "f" [] c = "G" -> "g" [] c = "H" -> "h"
                [] c = "I" -> "i" [] c = "J" -> "j" [] c = "K" -> "k" [] c = "L" -> "l"
                [] c = "M" -> "m" [] c = "N" -> "n" [] c = "O" -> "o" [] c = "P" -> "p"
                [] c = "Q" -> "q" [] c = "R" -> "r" [] c = "S" -> "s" [] c = "T" -> "t"
                [] c = "U" -> "u" [] c = "V" -> "v" [] c = "W" -> "w" [] c = "X" -> "x"
                [] c = "Y" -> "y" [] c = "Z" -> "z"]

\* \w
WordChars == Digits \cup LowerLetters \cup UpperLetters \cup {"_"}

\* \s
SpaceChars == {" "}

\* the i-th character of s (1-based), "" outside the string
Ch(s, i) == IF i >= 1 /\ i <= Len(s) THEN SubSeq(s, i, i) ELSE ""

LowerCh(c) == IF c \in UpperLetters THEN LowerOf[c] ELSE c

\* str.lower()
RECURSIVE Lower(_)
Lower(s) == IF Len(s) = 0 THEN "" ELSE LowerCh(Ch(s, 1)) \o Lower(SubSeq(s, 2, Len(s)))

\* k in s
Contains(s, k) == \E i \in 1..(Len(s) - Len(k) + 1) : SubSeq(s, i, i + Len(k) - 1) = k

\* s.startswith(k)
StartsWith(s, k) == Len(k) <= Len(s) /\ SubSeq(s, 1, Len(k)) = k

\* the literal lit stands at position i of s
LitAt(s, i, lit) == i + Len(lit) - 1 <= Len(s) /\ SubSeq(s, i, i + Len(lit) - 1) = lit

\* the same under re.IGNORECASE (lit is lower case)
LitAtCI(s, i, lit) == i + Len(lit) - 1 <= Len(s) /\ Lower(SubSeq(s, i, i + Len(lit) - 1)) = lit

\* \b between the characters i-1 and i
Boundary(s, i) == (Ch(s, i - 1) \in WordChars) # (Ch(s, i) \in WordChars)

\* the length of the longest run of characters of class C that starts at i
RunLen(s, i, C) == CHOOSE n \in 0..(Len(s) - i + 1) :
                      /\ \A k \in 0..(n - 1) : Ch(s, i + k) \in C
                      /\ Ch(s, i + n) \notin C

\* the larger of a set of positions, 0 for none
MaxOf(S) == IF S = {} THEN 0 ELSE CHOOSE x \in S : \A y \in S : y <= x

\* the members of the sequence q as a set
Range(q) == {q[i] : i \in 1..Len(q)}

\* a variant of AppendNew without the membership test
AppendAlways(q, x) == Append(q, x)

\* q with x appended unless it is there already
AppendNew(q, x) == IF x \in Range(q) THEN q ELSE Append(q, x)

RECURSIVE Dedup(_)
Dedup(q) == IF Len(q) = 0 THEN <<>> ELSE AppendNew(Dedup(SubSeq(q, 1, Len(q) - 1)), q[Len(q)])

\* str.join
RECURSIVE Join(_, _)
Join(sep, q) == IF Len(q) = 0 THEN ""
                ELSE IF Len(q) = 1 THEN q[1]
                ELSE q[1] \o sep \o Join(sep, SubSeq(q, 2, Len(q)))

\* re.sub(r'[^\d]', '', s)
RECURSIVE DigitsOnly(_)
DigitsOnly(s) == IF Len(s) = 0 THEN ""
                 ELSE (IF Ch(s, 1) \in Digits THEN Ch(s, 1) ELSE "")
                        \o DigitsOnly(SubSeq(s, 2, Len(s)))

(***************************************************************************)
(* re.finditer for the patterns of the extractors.  XEnd(s, i) is the       *)
(* position after the match of pattern X that starts at i, 0 when the       *)
(* pattern does not match at i.                                             *)
(***************************************************************************)
\* the characters message texts are written in
Alphabet == WordChars \cup SpaceChars \cup {".", "-", "@", "+", ":", "/", "%", "|", ",", "!", "?"}

Six9 == {"6", "7", "8", "9"}

Letters == LowerLetters \cup UpperLetters

\* src/guvi_hackathon_api.py:94
upi_providers == <<"paytm", "phonepe", "googlepay", "amazonpay", "bhim", "ybl",
                   "axl", "icici", "sbi", "hdfc", "axis", "kotak", "okaxis",
                   "okhdfcbank", "okicici", "oksbi", "ibl", "airtel", "fbl",
                   "axisgo", "fakebank", "fakeupi", "scam", "fraud">>

\* src/guvi_hackathon_api.py:101
suspicious_keywords == <<"urgent", "immediately", "now", "quickly", "hurry", "fast",
    "blocked", "suspended", "frozen", "terminated", "deactivated",
    "expired", "expires", "expiring", "disable", "restricted",
    "account", "bank", "upi", "payment", "transaction", "transfer",
    "refund", "cashback", "money", "amount", "rupees", "rs", "inr",
    "otp", "password", "pin", "cvv", "verify", "confirm", "update",
    "kyc", "details", "information", "credentials",
    "won", "win", "prize", "reward", "congratulations", "selected",
    "lucky", "claim", "gift", "bonus", "offer", "deal", "discount",
    "click", "link", "call", "share", "send", "provide", "submit",
    "fraud", "scam", "phishing", "security", "risk", "alert",
    "sbi", "hdfc", "icici", "axis", "kotak", "pnb", "bob">>

\* the tail (?:paytm|...|[\w]+)\b of a payment-handle pattern, from position p
HandleTailEnd(providers, s, p) ==
    LET byProvider == {p + Len(providers[k]) : k \in {j \in 1..Len(providers) :
                          /\ LitAtCI(s, p, providers[j])
                          /\ Boundary(s, p + Len(providers[j]))}}
        m == RunLen(s, p, WordChars)
    IN  IF byProvider # {} THEN MaxOf(byProvider)
        ELSE IF m >= 1 THEN p + m
        ELSE 0

\* r'\b[\w\.-]{3,}@(?:' + '|'.join(self.upi_providers) + r'|[\w]+)\b', re.IGNORECASE
upi_patternEnd(s, i) ==
    LET n == RunLen(s, i, WordChars \cup {".", "-"})
    IN  IF Boundary(s, i) /\ n >= 3 /\ Ch(s, i + n) = "@"
        THEN HandleTailEnd(upi_providers, s, i + n + 1)
        ELSE 0

AllDigits(s, i, n) == \A k \in 0..(n - 1) : Ch(s, i + k) \in Digits

\* r'\+91[-\s]?[6-9]\d{9}'
phone_pattern1End(s, i) ==
    LET j == IF Ch(s, i + 3) \in ({"-"} \cup SpaceChars) THEN i + 4 ELSE i + 3
    IN  IF LitAt(s, i, "+91") /\ Ch(s, j) \in Six9 /\ AllDigits(s, j + 1, 9)
        THEN j + 10 ELSE 0

\* r'\b91[6-9]\d{9}\b'
phone_pattern2End(s, i) ==
    IF /\ Boundary(s, i) /\ LitAt(s, i, "91") /\ Ch(s, i + 2) \in Six9
       /\ AllDigits(s, i + 3, 9) /\ Boundary(s, i + 12)
    THEN i + 12 ELSE 0

\* r'\b[6-9]\d{9}\b'
phone_pattern3End(s, i) ==
    IF /\ Boundary(s, i) /\ Ch(s, i) \in Six9
       /\ AllDigits(s, i + 1, 9) /\ Boundary(s, i + 10)
    THEN i + 10 ELSE 0

\* r'\b[6-9]\d{2}[-\s]?\d{3}[-\s]?\d{4}\b'
phone_pattern4End(s, i) ==
    LET j == IF Ch(s, i + 3) \in ({"-"} \cup SpaceChars) THEN i + 4 ELSE i + 3
        k == IF Ch(s, j + 3) \in ({"-"} \cup SpaceChars) THEN j + 4 ELSE j + 3
    IN  IF /\ Boundary(s, i) /\ Ch(s, i) \in Six9 /\ AllDigits(s, i + 1, 2)
           /\ AllDigits(s, j, 3) /\ AllDigits(s, k, 4) /\ Boundary(s, k + 4)
        THEN k + 4 ELSE 0

\* [^\s<>"{}|\\^`\[\]]
UrlChars == Alphabet \ (SpaceChars \cup {"|"})

\* [^\s]
NonSpace == Alphabet \ SpaceChars

\* r'http[s]?://[^\s<>"{}|\\^`\[\]]+', re.IGNORECASE
url_pattern1End(s, i) ==
    LET j == IF LitAtCI(s, i + 4, "s") THEN i + 5 ELSE i + 4
        n == RunLen(s, j + 3, UrlChars)
    IN  IF LitAtCI(s, i, "http") /\ LitAt(s, j, "://") /\ n >= 1
        THEN j + 3 + n ELSE 0

\* r'www\.[^\s<>"{}|\\^`\[\]]+', re.IGNORECASE
url_pattern2End(s, i) ==
    LET n == RunLen(s, i + 4, UrlChars)
    IN  IF LitAtCI(s, i, "www.") /\ n >= 1 THEN i + 4 + n ELSE 0

\* r'\b[a-z0-9-]+\.(?:com|net|org|in|co\.in)[^\s]*', re.IGNORECASE
url_pattern3End(s, i) ==
    LET n == RunLen(s, i, Letters \cup Digits \cup {"-"})
        p == i + n + 1
        tlds == {t \in {"com", "net", "org", "in", "co.in"} : LitAtCI(s, p, t)}
        \* the alternatives are tried in order; the first that stands there is taken
        t == IF "com" \in tlds THEN "com" ELSE IF "net" \in tlds THEN "net"
             ELSE IF "org" \in tlds THEN "org" ELSE IF "in" \in tlds THEN "in" ELSE "co.in"
    IN  IF Boundary(s, i) /\ n >= 1 /\ Ch(s, i + n) = "." /\ tlds # {}
        THEN p + Len(t) + RunLen(s, p + Len(t), NonSpace) ELSE 0

\* r'\b[A-Za-z0-9._%+-]+@[A-Za-z0-9.-]+\.[A-Z|a-z]{2,}\b'
email_patternEnd(s, i) ==
    LET n  == RunLen(s, i, Letters \cup Digits \cup {".", "_", "%", "+", "-"})
        d0 == i + n + 1
        D  == RunLen(s, d0, Letters \cup Digits \cup {".", "-"})
        \* the ends the pattern can reach with a domain of d characters
        ends(d) == {d0 + d + 1 + t : t \in {u \in 2..RunLen(s, d0 + d + 1, Letters \cup {"|"}) :
                                              Boundary(s, d0 + d + 1 + u)}}
        ds == {d \in 1..D : Ch(s, d0 + d) = "." /\ ends(d) # {}}
    IN  IF Boundary(s, i) /\ n >= 1 /\ Ch(s, i + n) = "@" /\ ds # {}
        THEN MaxOf(ends(MaxOf(ds))) ELSE 0

\* r'\b\d{9}\b|\b\d{11,18}\b'
account_patternEnd(s, i) ==
    LET n == RunLen(s, i, Digits)
    IN  IF Boundary(s, i) /\ (n = 9 \/ (n >= 11 /\ n <= 18)) /\ Boundary(s, i + n)
        THEN i + n ELSE 0

\* IntelligenceExtractor.account_pattern (src/full_honeypot_system.py): r'\b\d{9,18}\b'
full_account_patternEnd(s, i) ==
    LET n == RunLen(s, i, Digits)
    IN  IF Boundary(s, i) /\ n >= 9 /\ n <= 18 /\ Boundary(s, i + n)
        THEN i + n ELSE 0

\* r'\d{4,}'
numbers_patternEnd(s, i) ==
    LET n == RunLen(s, i, Digits) IN IF n >= 4 THEN i + n ELSE 0

MatchEnd(pat, s, i) ==
    CASE pat = "upi_pattern"     -> upi_patternEnd(s, i)
      [] pat = "phone_pattern1"  -> phone_pattern1End(s, i)
      [] pat = "phone_pattern2"  -> phone_pattern2End(s, i)
      [] pat = "phone_pattern3"  -> phone_pattern3End(s, i)
      [] pat = "phone_pattern4"  -> phone_pattern4End(s, i)
      [] pat = "url_pattern1"    -> url_pattern1End(s, i)
      [] pat = "url_pattern2"    -> url_pattern2End(s, i)
      [] pat = "url_pattern3"    -> url_pattern3End(s, i)
      [] pat = "email_pattern"   -> email_patternEnd(s, i)
      [] pat = "account_pattern" -> account_patternEnd(s, i)
      [] pat = "numbers_pattern" -> numbers_patternEnd(s, i)
      [] pat = "full_account_pattern" -> full_account_patternEnd(s, i)

\* [m.group() for m in re.finditer(pat, s)]: the leftmost matches, left to right
RECURSIVE FindIterFrom(_, _, _)
FindIterFrom(pat, s, i) ==
    IF i > Len(s) THEN <<>>
    ELSE LET e == MatchEnd(pat, s, i)
         IN  IF e = 0 THEN FindIterFrom(pat, s, i + 1)
             ELSE <<SubSeq(s, i, e - 1)>> \o FindIterFrom(pat, s, e)

FindIter(pat, s) == FindIterFrom(pat, s, 1)

RECURSIVE MapLower(_)
MapLower(q) == IF Len(q) = 0 THEN <<>> ELSE <<Lower(q[1])>> \o MapLower(SubSeq(q, 2, Len(q)))

RECURSIVE ConcatAll(_)
ConcatAll(qs) == IF Len(qs) = 0 THEN <<>> ELSE qs[1] \o ConcatAll(SubSeq(qs, 2, Len(qs)))

\* the members of q that satisfy the test, in order
SelectIn(q, S) == SelectSeq(q, LAMBDA x : x \in S)

(***************************************************************************)
(* AggressiveIntelligenceExtractor (src/guvi_hackathon_api.py)              *)
(***************************************************************************)
\* the providers named in the text, in the order of self.upi_providers
MentionedProviders(text) ==
    SelectSeq(upi_providers, LAMBDA provider : Contains(Lower(text), provider))

\* 1. UPI IDs: the matches lower-cased, each once; with none, a synthetic id for
\*    the first provider the text names
extract_upiIds(text) ==
    LET found == Dedup(MapLower(FindIter("upi_pattern", text)))
    IN  IF Len(found) = 0 /\ Len(MentionedProviders(text)) > 0
        THEN <<"user@" \o MentionedProviders(text)[1]>>
        ELSE found

\* the number kept for one match of a phone pattern, "" when it is dropped
PhoneOf(match) ==
    LET digits == DigitsOnly(match)
        phone  == IF StartsWith(digits, "91") THEN SubSeq(digits, 3, Len(digits)) ELSE digits
    IN  IF Len(phone) = 10 /\ Ch(phone, 1) \in Six9 THEN phone ELSE ""

RECURSIVE MapPhoneOf(_)
MapPhoneOf(q) == IF Len(q) = 0 THEN <<>> ELSE <<PhoneOf(q[1])>> \o MapPhoneOf(SubSeq(q, 2, Len(q)))

\* 2. phone numbers, over the four patterns in order
extract_phoneNumbers(text) ==
    LET matches == FindIter("phone_pattern1", text) \o FindIter("phone_pattern2", text)
                     \o FindIter("phone_pattern3", text) \o FindIter("phone_pattern4", text)
    IN  Dedup(SelectSeq(MapPhoneOf(matches), LAMBDA phone : phone # ""))

\* 3. URLs, over the three patterns in order
extract_phishingLinks(text) ==
    Dedup(FindIter("url_pattern1", text) \o FindIter("url_pattern2", text)
            \o FindIter("url_pattern3", text))

\* 4. email addresses that are not among the UPI ids
extract_emailAddresses(text) ==
    LET upis == Range(extract_upiIds(text))
    IN  Dedup(SelectSeq(MapLower(FindIter("email_pattern", text)), LAMBDA email : email \notin upis))

\* 5. bank account numbers
extract_bankAccounts(text) == Dedup(FindIter("account_pattern", text))

\* 6. found_keywords, in the order of self.suspicious_keywords
found_keywords(text) ==
    SelectSeq(suspicious_keywords, LAMBDA keyword : Contains(Lower(text), keyword))

\* the sequences that list each member of the set S once
Orderings(S) == {q \in [1..Cardinality(S) -> S] : \A i, j \in 1..Cardinality(S) : q[i] = q[j] => i = j}

\* list(set(found_keywords)): the order of a set of strings is not fixed (string
\* hashing is salted per process), so every order is an outcome
KeywordOrders(text) == Orderings(Range(found_keywords(text)))

\* 7. the fallback terms, when nothing else was found
financial_terms == <<"account", "bank", "money", "pay", "cash", "rupee">>

fallback_keywords(text) ==
    (IF Len(FindIter("numbers_pattern", text)) > 0 THEN <<"contains_numbers">> ELSE <<>>)
      \o SelectSeq(financial_terms, LAMBDA term : Contains(Lower(text), term))

\* if not any(intelligence.values()): the keywords become the fallback terms
WithFallback(intelligence, text) ==
    IF \A k \in DOMAIN intelligence : Len(intelligence[k]) = 0
    THEN [intelligence EXCEPT !.suspiciousKeywords = fallback_keywords(text)]
    ELSE intelligence

\* extract(text), with keywords the order list(set(...)) gave
extract(text, keywords) ==
    IF Len(text) = 0
    THEN [upiIds |-> <<>>, phoneNumbers |-> <<>>, bankAccounts |-> <<>>,
          phishingLinks |-> <<>>, emailAddresses |-> <<>>, suspiciousKeywords |-> <<>>]
    ELSE WithFallback([upiIds             |-> extract_upiIds(text),
                       phoneNumbers       |-> extract_phoneNumbers(text),
                       bankAccounts       |-> extract_bankAccounts(text),
                       phishingLinks      |-> extract_phishingLinks(text),
                       emailAddresses     |-> extract_emailAddresses(text),
                       suspiciousKeywords |-> keywords], text)

(***************************************************************************)
(* SessionManager.detect_scam_type (src/guvi_hackathon_api.py)              *)
(***************************************************************************)
bank_indicators == <<"bank", "account", "otp", "blocked", "suspended", "kyc">>

upi_indicators == <<"upi", "paytm", "phonepe", "cashback", "prize", "won", "reward">>

phishing_indicators == <<"click", "link", "http", "www", "offer", "deal", "expires">>

urgency == <<"urgent", "immediately", "now", "quickly">>

\* sum(weight for word in words if word in text_lower)
IndicatorScore(weight, words, text) ==
    weight * Len(SelectSeq(words, LAMBDA word : Contains(Lower(text), word)))

Min2(a, b) == IF a <= b THEN a ELSE b

Max2(a, b) == IF a >= b THEN a ELSE b

\* threat_level = min(10, max(scores.values()))
ClampThreat(raw) == Min2(10, raw)

\* if threat_level > 0: threat_level = max(5, threat_level)
FloorThreat(level) == IF level > 0 THEN Max2(5, level) ELSE level

\* detect_scam_type(text) = <<scam_type, threat_level>>
detect_scam_type(text) ==
    LET urgency_boost  == IF Len(SelectSeq(urgency, LAMBDA word : Contains(Lower(text), word))) > 0
                          THEN 3 ELSE 0
        bank_score     == IndicatorScore(3, bank_indicators, text) + urgency_boost
        upi_score      == IndicatorScore(2, upi_indicators, text)
        phishing_score == IndicatorScore(2, phishing_indicators, text)
        top            == Max2(bank_score, Max2(upi_score, phishing_score))
        \* max(scores, key=scores.get): the first key, in insertion order, of the top score
        scam_type      == IF bank_score = top THEN "bank_fraud"
                          ELSE IF upi_score = top THEN "upi_fraud"
                          ELSE "phishing"
    IN  <<scam_type, FloorThreat(ClampThreat(top))>>

(***************************************************************************)
(* IntelligentResponseGenerator.generate (src/guvi_hackathon_api.py)        *)
(***************************************************************************)
\* s[:n]
Prefix(s, n) == SubSeq(s, 1, Min2(n, Len(s)))

generic_responses ==
    <<"I'm not sure I understand completely. Can you explain again in simple words?",
      "What information exactly do you need from me? Please list clearly.",
      "Is this really legitimate? How can I verify this is not fraud?",
      "Let me take a minute to check... my phone is slow. What was that detail you mentioned?">>

generate_bank_fraud(extracted_intel, turn_count) ==
    IF turn_count = 1 THEN
        IF Len(extracted_intel.upiIds) > 0
        THEN "Oh no! My account is blocked? Should I send details to " \o extracted_intel.upiIds[1]
                \o "? Is that the official bank UPI?"
        ELSE IF Len(extracted_intel.phoneNumbers) > 0
        THEN "This is very urgent! Should I call " \o extracted_intel.phoneNumbers[1]
                \o " number? Is this really from bank?"
        ELSE "Oh my god! My account will be blocked? What should I do sir? How do I verify?"
    ELSE IF turn_count = 2 THEN
        "I'm very worried. Can you tell me exactly what information you need? Should I go to bank branch?"
    ELSE IF turn_count = 3 THEN
        IF Len(extracted_intel.suspiciousKeywords) > 0
        THEN "You mentioned " \o Join(", ", SubSeq(extracted_intel.suspiciousKeywords, 1,
                                               Min2(2, Len(extracted_intel.suspiciousKeywords))))
                \o ". Can you explain this more? I'm confused..."
        ELSE "Okay sir, I will provide details. But first, can you confirm your employee ID or ticket number?"
    ELSE "Let me check my account... App is opening... What was that number you mentioned again?"

generate_upi_fraud(extracted_intel, turn_count) ==
    IF turn_count = 1 THEN
        IF Len(extracted_intel.upiIds) > 0
        THEN "Really? I won cashback! Should I send money to " \o extracted_intel.upiIds[1]
                \o "? How much?"
        ELSE "Congratulations to me! How do I claim this cashback reward? What details you need?"
    ELSE IF turn_count = 2 THEN
        IF Len(extracted_intel.phoneNumbers) > 0
        THEN "Should I call " \o extracted_intel.phoneNumbers[1]
                \o " to verify? Is this Paytm customer care number?"
        ELSE "Which UPI app should I use - Paytm or PhonePe? Please tell me step by step."
    ELSE IF turn_count = 3 THEN
        "I'm opening my UPI app now... it's asking for PIN. What should I enter? Tell me slowly."
    ELSE "Wait, my app is showing different amount. You said cashback is how much exactly?"

generate_phishing(extracted_intel, turn_count) ==
    IF turn_count = 1 THEN
        IF Len(extracted_intel.phishingLinks) > 0
        THEN "This link " \o Prefix(extracted_intel.phishingLinks[1], 30)
                \o "... looks long. Is it safe to click? How do I know?"
        ELSE "iPhone at Rs 999? This is amazing deal! Is this really official website?"
    ELSE IF turn_count = 2 THEN
        "Before I click, can you tell me - will it ask for my card details? Is COD available?"
    ELSE IF turn_count = 3 THEN
        IF Len(extracted_intel.emailAddresses) > 0
        THEN "Your email is " \o extracted_intel.emailAddresses[1]
                \o "? Let me verify this is real Amazon first..."
        ELSE "The website is asking for OTP. Should I share it? What happens after I submit?"
    ELSE "I tried clicking but page is not loading. Can you send the link again? Or give me phone number to call?"

\* generate(extracted_intel, turn_count, scam_type)
generate(extracted_intel, turn_count, scam_type) ==
    IF scam_type = "bank_fraud" THEN generate_bank_fraud(extracted_intel, turn_count)
    ELSE IF scam_type = "upi_fraud" THEN generate_upi_fraud(extracted_intel, turn_count)
    ELSE IF scam_type = "phishing" THEN generate_phishing(extracted_intel, turn_count)
    ELSE generic_responses[Min2(turn_count, Len(generic_responses))]

(***************************************************************************)
(* UnifiedIntelligenceExtractor.extract_all (src/openrouter_integration.py) *)
(***************************************************************************)
\* the providers named in upi_pattern, src/openrouter_integration.py:68
unified_providers == <<"paytm", "phonepe", "googlepay", "amazonpay", "bhim", "ybl", "axl",
                       "icici", "sbi", "hdfc", "oksbi", "okaxis", "okhdfcbank", "okicici",
                       "ibl", "airtel", "fbl", "axisgo", "fakebank", "fakeupi">>

\* r'\b[\w\.-]+@(?:paytm|...|[\w]+)\b', re.IGNORECASE
unified_upi_patternEnd(s, i) ==
    LET n == RunLen(s, i, WordChars \cup {".", "-"})
    IN  IF Boundary(s, i) /\ n >= 1 /\ Ch(s, i + n) = "@"
        THEN HandleTailEnd(unified_providers, s, i + n + 1)
        ELSE 0

\* r'http[s]?://(?:[a-zA-Z0-9]|[$-_@.&+]|[!*\\(\\),]|(?:%[0-9a-fA-F][0-9a-fA-F]))+'
\* ([$-_] is the range of characters from $ to _)
unified_url_patternEnd(s, i) ==
    LET j == IF LitAt(s, i + 4, "s") THEN i + 5 ELSE i + 4
        n == RunLen(s, j + 3, Alphabet \ (SpaceChars \cup {"|"}))
    IN  IF LitAt(s, i, "http") /\ LitAt(s, j, "://") /\ n >= 1
        THEN j + 3 + n ELSE 0

\* r'\b\d{10,18}\b'
unified_account_patternEnd(s, i) ==
    LET n == RunLen(s, i, Digits)
    IN  IF Boundary(s, i) /\ n >= 10 /\ n <= 18 /\ Boundary(s, i + n)
        THEN i + n ELSE 0

UnifiedMatchEnd(pat, s, i) ==
    CASE pat = "upi_pattern"     -> unified_upi_patternEnd(s, i)
      [] pat = "phone_pattern1"  -> phone_pattern1End(s, i)
      [] pat = "phone_pattern2"  -> phone_pattern3End(s, i)
      [] pat = "url_pattern"     -> unified_url_patternEnd(s, i)
      [] pat = "email_pattern"   -> email_patternEnd(s, i)
      [] pat = "account_pattern" -> unified_account_patternEnd(s, i)

RECURSIVE UnifiedFindIterFrom(_, _, _)
UnifiedFindIterFrom(pat, s, i) ==
    IF i > Len(s) THEN <<>>
    ELSE LET e == UnifiedMatchEnd(pat, s, i)
         IN  IF e = 0 THEN UnifiedFindIterFrom(pat, s, i + 1)
             ELSE <<SubSeq(s, i, e - 1)>> \o UnifiedFindIterFrom(pat, s, e)

UnifiedFindIter(pat, s) == UnifiedFindIterFrom(pat, s, 1)

\* s with every character of the set drop removed
RECURSIVE Without(_, _)
Without(s, drop) == IF Len(s) = 0 THEN ""
                    ELSE (IF Ch(s, 1) \in drop THEN "" ELSE Ch(s, 1))
                           \o Without(SubSeq(s, 2, Len(s)), drop)

\* match.group().replace('+91', '').replace('-', '').replace(' ', '').strip()
\* (a match holds '+91' at its start or not at all)
UnifiedPhoneOf(match) ==
    Without(IF StartsWith(match, "+91") THEN SubSeq(match, 4, Len(match)) ELSE match, {"-", " "})

RECURSIVE MapUnifiedPhoneOf(_)
MapUnifiedPhoneOf(q) ==
    IF Len(q) = 0 THEN <<>> ELSE <<UnifiedPhoneOf(q[1])>> \o MapUnifiedPhoneOf(SubSeq(q, 2, Len(q)))

\* the items of one data type, confidence in hundredths
RECURSIVE Items(_, _, _)
Items(data_type, confidence, values) ==
    IF Len(values) = 0 THEN <<>>
    ELSE <<[data_type |-> data_type, value |-> values[1], confidence |-> confidence]>>
           \o Items(data_type, confidence, SubSeq(values, 2, Len(values)))

email_excluded == <<"paytm", "phonepe", "googlepay", "bhim", "ybl">>

\* the UPI ids of a text: the matches lower-cased, each once
extract_all_upi(text) == Dedup(MapLower(UnifiedFindIter("upi_pattern", text)))

\* a variant of NotPhoneLength that keeps every length
AnyLength(value) == TRUE

\* if len(value) != 10
NotPhoneLength(value) == Len(value) # 10

\* extract_all(text)
extract_all(text) ==
    IF Len(text) = 0 THEN <<>>
    ELSE
      Items("upi_id", 95, extract_all_upi(text))
      \o Items("phone_number", 90,
               Dedup(SelectSeq(MapUnifiedPhoneOf(UnifiedFindIter("phone_pattern1", text)
                                                   \o UnifiedFindIter("phone_pattern2", text)),
                               LAMBDA phone : phone # "")))
      \o Items("phishing_link", 100, Dedup(UnifiedFindIter("url_pattern", text)))
      \o Items("email_address", 85,
               Dedup(SelectSeq(MapLower(UnifiedFindIter("email_pattern", text)),
                               LAMBDA email : \A k \in 1..Len(email_excluded) :
                                                 ~Contains(email, email_excluded[k]))))
      \o Items("bank_account", 70,
               Dedup(SelectSeq(UnifiedFindIter("account_pattern", text),
                               LAMBDA value : NotPhoneLength(value))))

(***************************************************************************)
(* ScamAnalyzer (src/full_honeypot_system.py) and SimpleScamAnalyzer        *)
(* (src/openrouter_integration.py)                                          *)
(***************************************************************************)
scam_pattern_types == <<"banking", "payment", "urgent", "threat", "remote", "refund">>

scam_patterns ==
    [banking |-> <<"account", "bank", "otp", "verify", "blocked", "kyc", "atm", "debit", "credit">>,
     payment |-> <<"pay", "send", "upi", "paytm", "transfer", "phonepe", "gpay", "payment">>,
     urgent  |-> <<"urgent", "immediately", "now", "quick", "jaldi", "abhi">>,
     threat  |-> <<"blocked", "suspended", "action", "police", "arrest", "legal", "court">>,
     remote  |-> <<"anydesk", "teamviewer", "remote", "access", "install app", "download">>,
     refund  |-> <<"refund", "cashback", "wrong payment", "return money">>]

urgency_keywords == <<"urgent", "immediately", "now", "jaldi", "abhi">>

polite_indicators == <<"sir", "madam", "please", "kindly">>

aggressive_indicators == <<"must", "have to", "will be", "shall be">>

\* sum(1 for kw in words if kw in message_lower)
Hits(words, message) == Len(SelectSeq(words, LAMBDA kw : Contains(Lower(message), kw)))

detect_scammer_persona(message) ==
    IF Hits(aggressive_indicators, message) >= 2 \/ Hits(urgency_keywords, message) >= 2
    THEN "aggressive"
    ELSE IF Hits(polite_indicators, message) >= 2 THEN "polite"
    ELSE "neutral"

RECURSIVE SumSeq(_)
SumSeq(q) == IF Len(q) = 0 THEN 0 ELSE q[1] + SumSeq(SubSeq(q, 2, Len(q)))

\* ScamAnalyzer.analyze(message)
analyze(message) ==
    LET scam_scores == [k \in 1..Len(scam_pattern_types) |->
                          2 * Hits(scam_patterns[scam_pattern_types[k]], message)]
        total_score == SumSeq(scam_scores)
        top         == MaxOf(Range(scam_scores))
        \* max(scam_scores, key=scam_scores.get): the first type of the top score
        first       == CHOOSE k \in 1..Len(scam_pattern_types) :
                          /\ scam_scores[k] = top
                          /\ \A j \in 1..(k - 1) : scam_scores[j] # top
        has_payment_request == Hits(<<"pay", "send", "upi", "paytm", "transfer">>, message) > 0
        has_urgency == Hits(urgency_keywords, message) > 0
        has_threat  == Hits(<<"block", "suspend", "arrest", "police">>, message) > 0
        has_number  == Len(FindIter("numbers_pattern", message)) > 0
        boosted     == Min2(10, total_score)
                         + (IF has_payment_request THEN 3 ELSE 0)
                         + (IF has_urgency THEN 2 ELSE 0)
                         + (IF has_threat THEN 2 ELSE 0)
                         + (IF has_number THEN 1 ELSE 0)
        threat_level == Min2(10, Max2(3, boosted))
    IN  [primary_scam_type   |-> IF top > 0 THEN scam_pattern_types[first] ELSE "unknown",
         threat_level        |-> threat_level,
         has_payment_request |-> has_payment_request,
         urgency             |-> has_urgency,
         should_engage       |-> threat_level >= 1 \/ has_payment_request \/ Len(message) > 5,
         scam_scores         |-> scam_scores,
         scammer_persona     |-> detect_scammer_persona(message)]

\* SimpleScamAnalyzer.analyze(message)
simple_analyze(message) ==
    LET high_count   == Hits(<<"urgent", "blocked", "suspended", "otp", "immediately", "compromised">>, message)
        medium_count == Hits(<<"won", "prize", "cashback", "claim", "reward", "verify">>, message)
        threat_level == Min2(10, high_count * 3 + medium_count * 2)
    IN  [primary_scam_type |-> IF Hits(<<"bank", "account", "otp">>, message) > 0 THEN "bank_fraud"
                               ELSE IF Hits(<<"upi", "paytm", "prize", "won">>, message) > 0 THEN "upi_fraud"
                               ELSE IF Contains(Lower(message), "http") THEN "phishing"
                               ELSE "unknown",
         threat_level      |-> threat_level,
         should_engage     |-> threat_level >= 5]

\* AIEnhancedOrchestrator._template_response(scam_type, turn)
orch_templates(scam_type) ==
    IF scam_type = "bank_fraud"
    THEN <<"Oh no! What should I do?", "I'm worried about my account.", "Should I go to bank?">>
    ELSE IF scam_type = "upi_fraud"
    THEN <<"Really? I won prize?", "How to claim this?", "Which UPI to use?">>
    ELSE IF scam_type = "phishing"
    THEN <<"Is this real?", "The link is safe?", "How do I know it's genuine?">>
    ELSE <<"I don't understand.", "What do you mean?", "Please explain.">>

template_response(scam_type, turn) ==
    orch_templates(scam_type)[Min2(turn, Len(orch_templates(scam_type)))]

(***************************************************************************)
(* The message texts of the model, and what the pure functions above give   *)
(* for each of them (computed once).                                        *)
(***************************************************************************)
\* the message texts of the requests
Texts == {"pay to abc@ybl", "urgent otp Abc@YBL", "hello"}

\* three payment requests with one handle, and one that names upi
PaymentTexts == {"pay to abc@ybl", "send to abc@ybl", "transfer to abc@ybl", "upi abc@ybl"}

\* a text whose indicator score is above 10, and one without indicators
ThreatTexts == {"kyc otp bank now", "hello"}

\* the texts of the orchestrator's callers
OrchTexts == {"urgent otp Abc@YBL", "pay abc@ybl now", "hello"}

\* the session ids of the requests; "" is a request without sessionId
RequestIds == {"s1", ""}

\* the sender labels of the requests; "" is a message without sender
Senders == {"scammer", ""}

\* a text with an e-mail address, and one with a payment handle
MergeTexts == {"otp mail bob@mail.com", "pay to abc@ybl"}

AllTexts == Texts \cup PaymentTexts \cup ThreatTexts \cup OrchTexts \cup MergeTexts



TextFacts == {[text      |-> text,
               extracts  |-> {extract(text, o) : o \in KeywordOrders(text)},
               detected  |-> detect_scam_type(text),
               standalone |-> [primary_scam_type |-> analyze(text).primary_scam_type,
                               threat_level      |-> analyze(text).threat_level,
                               should_engage     |-> analyze(text).should_engage],
               simple    |-> simple_analyze(text),
               items     |-> extract_all(text)] : text \in AllTexts}

(***************************************************************************)
(* The state.                                                               *)
(***************************************************************************)
VARIABLES
    \* SessionManager (src/guvi_hackathon_api.py)
    sessions,          \* self.sessions: session id -> session
    orchestrator,      \* self.orchestrator: "none" or "ai"
    autos,             \* the number of auto-<uuid> session ids handed out
    \* AIEnhancedOrchestrator (src/openrouter_integration.py)
    active_sessions,   \* self.active_sessions: session id -> session
    session_seq,       \* the number of session ids start_session has made
    standalone_mode,   \* self.standalone_mode: full_honeypot_system was importable
    use_ai,            \* self.use_ai
    threads,           \* per worker thread: its handle_message call in progress
    \* HoneypotDatabase (src/full_honeypot_system.py)
    fatigue_events,    \* the rows of table fatigue_events, a bag
    fatigue_scores,    \* sessions.psychological_fatigue_score per session row
    \* history, for stating the properties
    callbacks,         \* per session id: the send_callback invocations, in order
    last,              \* what the latest request did
    policy,            \* per session id: the messages handled, the turns at which the
                       \* report was due
    returned,          \* the finished orchestrator calls, in order
    \* one call of an analyzer or extractor, and of the generative responder
    probe,             \* the text given and what the function called on it gave
    agent,             \* OpenRouterPersonaAgent.generate_response: the call in progress
    \* the request handler of guvi_hackathon_api.py, statement by statement
    handler,           \* the handle_message call in progress on the event loop
    \* EnhancedVoiceManager (src/simple_fastapi_honeypot.py)
    voice_sessions     \* self.sessions: call id -> the call

vars == <<sessions, orchestrator, autos, active_sessions, session_seq, standalone_mode,
          use_ai, threads, fatigue_events, fatigue_scores, callbacks, last, policy, returned,
          probe, agent, handler, voice_sessions>>

sm_vars == <<sessions, autos, callbacks, last, policy>>

cfg_vars == <<orchestrator, standalone_mode, use_ai>>

orch_vars == <<active_sessions, session_seq>>

thread_vars == <<threads, returned>>

fatigue_vars == <<fatigue_events, fatigue_scores>>

probe_vars == <<probe, agent, handler, voice_sessions>>

call_vars == <<handler, voice_sessions>>

\* no function has been called on a text
NoProbe == [fn |-> "none", text |-> ""]

\* no generate_response call is running
NoAgent == [pc |-> "idle"]

\* no handle_message call is running
NoHandler == [pc |-> "idle"]

(***************************************************************************)
(* AIEnhancedOrchestrator: sessions and one whole handle_message call       *)
(***************************************************************************)
\* session_id = f"session_{datetime.now().strftime('%Y%m%d_%H%M%S_%f')}": a new id
\* per call (two calls are more than a microsecond apart)
StartedId(n) == "session_" \o ToString(n)

\* the session start_session stores
NewOrchSession == [turn_count |-> 0, messages |-> <<>>, intelligence |-> <<>>,
                   scam_type |-> "unknown"]

\* f @@ (k :> v), k not in DOMAIN f
Put(f, k, v) == [x \in DOMAIN f \cup {k} |-> IF x = k THEN v ELSE f[x]]

\* analysis = self.analyzer.analyze(message): ScamAnalyzer in standalone mode,
\* else SimpleScamAnalyzer
orch_analyze(standalone, facts) == IF standalone THEN facts.standalone ELSE facts.simple

\* What the generative path (OpenRouterPersonaAgent.generate_response) hands back:
\* the backend's text or a fallback table entry; "raise" when it raises.
\* With the persona of full_honeypot_system (standalone mode) the prompt's
\* self.persona['gender'] raises KeyError before any backend attempt.
GenerativeReplies == {"Sorry, I don't understand clearly.", "Kya?"}

GenerateOutcomes(standalone) == IF standalone THEN {"raise"} ELSE GenerativeReplies

\* the session id handle_message works on
ResolveId(as, seq, session_id) == IF session_id \in DOMAIN as THEN session_id ELSE StartedId(seq + 1)

\* active_sessions after "if session_id not in self.active_sessions: self.start_session()"
Resolve(as, seq, session_id) ==
    IF session_id \in DOMAIN as THEN as ELSE Put(as, StartedId(seq + 1), NewOrchSession)

\* session_seq after the same statement
ResolveSeq(as, seq, session_id) == IF session_id \in DOMAIN as THEN seq ELSE seq + 1

\* session['messages'].append(...); session['intelligence'].extend(extracted);
\* session['scam_type'] = analysis['primary_scam_type'] unless unknown
Record(session, analysis, extracted, message, sender) ==
    [session EXCEPT !.messages = Append(@, [sender |-> sender, text |-> message]),
                    !.intelligence = @ \o extracted,
                    !.scam_type = IF analysis.primary_scam_type # "unknown"
                                  THEN analysis.primary_scam_type ELSE @]

\* the response: the fixed text when not engaging, else the generative path's
\* outcome or the template
Respond(session, analysis, ai, turn_count, outcome) ==
    IF ~analysis.should_engage THEN "Thank you for your message."
    ELSE IF ai THEN outcome
    ELSE template_response(session.scam_type, turn_count)

\* the outcomes the response step can have
RespondOutcomes(standalone, ai, analysis) ==
    IF analysis.should_engage /\ ai THEN GenerateOutcomes(standalone) ELSE {"template"}

\* the generative path raised: handle_message ends there
Raised(analysis, ai, outcome) == analysis.should_engage /\ ai /\ outcome = "raise"

\* session['messages'].append({'sender': 'honeypot', 'text': response})
Replied(session, response) ==
    [session EXCEPT !.messages = Append(@, [sender |-> "honeypot", text |-> response])]

\* the end of handle_message: the reply is stored and the result returned, or
\* the exception leaves the session as recorded
orch_return(as1, seq1, id, recorded, ai, analysis, extracted, raised, response) ==
    [active_sessions |-> [as1 EXCEPT ![id] = IF raised THEN recorded ELSE Replied(recorded, response)],
     session_seq     |-> seq1,
     raised          |-> raised,
     result          |-> [engaged    |-> analysis.should_engage,
                          session_id |-> id,
                          response   |-> IF raised THEN "" ELSE response,
                          analysis   |-> analysis,
                          extracted_intelligence |-> extracted,
                          turn_count |-> recorded.turn_count,
                          ai_powered |-> ai]]

\* handle_message from session['turn_count'] += 1 on
orch_turn(as1, seq1, id, ai, message, sender, analysis, extracted, outcome, counted) ==
    orch_return(as1, seq1, id, Record(counted, analysis, extracted, message, sender),
                ai, analysis, extracted, Raised(analysis, ai, outcome),
                Respond(Record(counted, analysis, extracted, message, sender),
                        analysis, ai, counted.turn_count, outcome))

\* the session with session['turn_count'] += 1
Counted(session) == [session EXCEPT !.turn_count = @ + 1]

\* One whole call handle_message(message, session_id, sender), no other call
\* running: the new active_sessions, the id used, and the result or the raise.
orch_handle_message(as, seq, ai, message, session_id, sender, analysis, extracted, outcome) ==
    orch_turn(Resolve(as, seq, session_id), ResolveSeq(as, seq, session_id),
              ResolveId(as, seq, session_id), ai, message, sender, analysis, extracted, outcome,
              Counted(Resolve(as, seq, session_id)[ResolveId(as, seq, session_id)]))

(***************************************************************************)
(* SessionManager (src/guvi_hackathon_api.py)                               *)
(***************************************************************************)
IntelKeys == {"bankAccounts", "upiIds", "phishingLinks", "phoneNumbers", "suspiciousKeywords"}

\* the session get_or_create_session stores for a new id ('callback_sent' is not
\* a key yet: session.get('callback_sent') is None, here FALSE)
NewSession == [messages      |-> <<>>,
               intelligence  |-> [k \in IntelKeys |-> <<>>],
               scam_detected |-> FALSE,
               scam_type     |-> "unknown",
               threat_level  |-> 0,
               turn_count    |-> 0,
               callback_sent |-> FALSE]

\* a variant of get_or_create_session that starts a new registry for a new id
FreshRegistry(ss, session_id) ==
    IF session_id \in DOMAIN ss THEN ss ELSE [x \in {session_id} |-> NewSession]

get_or_create_session(ss, session_id) ==
    IF session_id \in DOMAIN ss THEN ss ELSE Put(ss, session_id, NewSession)

\* for item in new: if item and str(item) not in old: old.append(str(item))
RECURSIVE MergeList(_, _)
MergeList(old, new) ==
    IF Len(new) = 0 THEN old
    ELSE MergeList(IF new[1] # "" THEN AppendNew(old, new[1]) ELSE old, SubSeq(new, 2, Len(new)))

\* merge_intelligence(session_intel, new_intel): the five keys of the session
\* (extract names them the same way, so the renaming branch is never taken)
merge_intelligence(session_intel, new_intel) ==
    [k \in IntelKeys |-> MergeList(session_intel[k], new_intel[k])]

\* a variant of MergeThreat that stores the threat of the new message
KeepNewThreat(old, new) == new

\* session['threat_level'] = max(session['threat_level'], threat_level)
MergeThreat(old, new) == Max2(old, new)

\* any(len(v) > 0 for v in session['intelligence'].values())
HasIntelligence(session) == \E k \in IntelKeys : Len(session.intelligence[k]) > 0

\* should_callback
should_callback(session, turn) ==
    session.scam_detected /\ turn >= 3 /\ HasIntelligence(session)

\* should_callback and not session.get('callback_sent')
CallbackDue(session, turn) == should_callback(session, turn) /\ ~session.callback_sent

\* len([m for m in session['messages'] if m['sender'] == 'scammer'])
CountScammer(messages) == Len(SelectSeq(messages, LAMBDA m : m.sender = "scammer"))

TotalItems(session) ==
    Len(session.intelligence.bankAccounts) + Len(session.intelligence.upiIds)
      + Len(session.intelligence.phishingLinks) + Len(session.intelligence.phoneNumbers)
      + Len(session.intelligence.suspiciousKeywords)

\* the payload send_callback composes
Payload(session, session_id) ==
    [sessionId              |-> session_id,
     scamDetected           |-> session.scam_detected,
     totalMessagesExchanged |-> CountScammer(session.messages),
     extractedIntelligence  |-> session.intelligence,
     agentNotes             |-> session.scam_type \o " detected (threat "
                                  \o ToString(session.threat_level) \o "/10). Extracted: "
                                  \o ToString(TotalItems(session)) \o " items"]

\* what requests.post does with the report: a status code, or it raises
Deliveries == {"200", "500", "exception"}

\* send_callback: session['callback_sent'] = True once requests.post has returned,
\* whatever the status; nothing is stored when it raises
MarkSent(session, delivery) ==
    IF delivery = "exception" THEN session ELSE [session EXCEPT !.callback_sent = TRUE]

\* a variant of Scored without session['turn_count'] += 1
ScoredUncounted(session, detected, extracted) ==
    [session EXCEPT
       !.intelligence  = merge_intelligence(@, extracted),
       !.scam_type     = IF detected[1] # "unknown" THEN detected[1] ELSE @,
       !.threat_level  = Max2(@, detected[2]),
       !.scam_detected = detected[2] >= 5]

\* the session after session['turn_count'] += 1, STEP 1 and STEP 2 of handle_message
Scored(session, detected, extracted) ==
    [session EXCEPT
       !.turn_count    = @ + 1,
       !.intelligence  = merge_intelligence(@, extracted),
       !.scam_type     = IF detected[1] # "unknown" THEN detected[1] ELSE @,
       !.threat_level  = MergeThreat(@, detected[2]),
       !.scam_detected = detected[2] >= 5]

\* if self.orchestrator and session['scam_detected']
Asked(orch, session) == orch = "ai" /\ session.scam_detected

\* the outcomes of STEP 3: the orchestrator is asked when it is there and the
\* scam is detected
ReplyOutcomes(orch, standalone, ai, session, analysis) ==
    IF Asked(orch, session) THEN RespondOutcomes(standalone, ai, analysis) ELSE {"template"}

\* STEP 3: the orchestrator's response when it is longer than 10 characters, else
\* (not asked, raised, empty or short) the response generator's
Reply(asked, call, extracted, session) ==
    IF asked /\ ~call.raised /\ Len(call.result.response) > 10
    THEN call.result.response
    ELSE generate(extracted, session.turn_count, session.scam_type)

\* STEP 4: both messages are appended
Saved(session, sender, message_text, response) ==
    [session EXCEPT !.messages = @ \o <<[sender |-> sender, text |-> message_text],
                                        [sender |-> "honeypot", text |-> response]>>]

\* the report condition as the documentation words it, over the history of the
\* session: engage-worthy at some turn so far, three turns, and intelligence or
\* a session threat of 7
Claimed(ever, session) ==
    ever /\ session.turn_count >= 3 /\ (HasIntelligence(session) \/ session.threat_level >= 7)

PolicyOf(session_id) ==
    IF session_id \in DOMAIN policy THEN policy[session_id]
    ELSE [engaged_ever |-> FALSE, due_turns |-> <<>>, handled |-> 0]

CallbacksOf(x) == IF x \in DOMAIN callbacks THEN callbacks[x] ELSE <<>>

\* STEP 5 and the return of handle_message, for the session as saved
Finish(session_id, ss, saved, detected, response, delivery, was) ==
    /\ delivery \in (IF CallbackDue(saved, saved.turn_count) THEN Deliveries ELSE {"none"})
    /\ sessions' = [ss EXCEPT ![session_id] =
                      IF CallbackDue(saved, saved.turn_count) THEN MarkSent(saved, delivery)
                      ELSE saved]
    /\ callbacks' = [x \in DOMAIN ss |->
                       IF x = session_id /\ CallbackDue(saved, saved.turn_count)
                       THEN Append(CallbacksOf(x), [turn |-> saved.turn_count,
                                                    delivery |-> delivery,
                                                    payload |-> Payload(saved, session_id)])
                       ELSE CallbacksOf(x)]
    /\ policy' = [x \in DOMAIN ss |->
                    IF x = session_id
                    THEN [engaged_ever |-> was.engaged_ever \/ saved.scam_detected,
                          due_turns |-> IF Claimed(was.engaged_ever \/ saved.scam_detected, saved)
                                        THEN Append(was.due_turns, saved.turn_count)
                                        ELSE was.due_turns,
                          handled |-> was.handled + 1]
                    ELSE policy[x]]
    /\ last' = [kind |-> "turn", session_id |-> session_id,
                should_callback |-> should_callback(saved, saved.turn_count),
                invoked |-> CallbackDue(saved, saved.turn_count),
                result |-> [engaged      |-> saved.scam_detected,
                            response     |-> response,
                            threat_level |-> detected[2],
                            scam_type    |-> detected[1],
                            intelligence |-> saved.intelligence,
                            turn_count   |-> saved.turn_count],
                reply |-> [status |-> "success", reply |-> response,
                           scamDetected |-> saved.scam_detected,
                           threatLevel  |-> detected[2]]]

\* STEP 3 to STEP 5, for the session as scored and the orchestrator's call
Answer(session_id, message_text, sender, detected, extracted, delivery, ss, scored, asked, call) ==
    /\ IF asked
       THEN /\ active_sessions' = call.active_sessions
            /\ session_seq' = call.session_seq
       ELSE UNCHANGED <<active_sessions, session_seq>>
    /\ Finish(session_id, ss,
              Saved(scored, sender, message_text, Reply(asked, call, extracted, scored)),
              detected, Reply(asked, call, extracted, scored), delivery, PolicyOf(session_id))

\* handle_message(message_text, session_id, sender), with what the extractor and
\* the analyzers give for the text, the order extract gave the keywords, and the
\* outcome of the orchestrator's generative path and of the delivery
HandleMessage(session_id, facts, sender, extracted, outcome, delivery, scored) ==
    /\ outcome \in ReplyOutcomes(orchestrator, standalone_mode, use_ai, scored,
                                 orch_analyze(standalone_mode, facts))
    /\ Answer(session_id, facts.text, sender, facts.detected, extracted, delivery,
              get_or_create_session(sessions, session_id), scored,
              Asked(orchestrator, scored),
              orch_handle_message(active_sessions, session_seq, use_ai, facts.text, session_id,
                                  sender, orch_analyze(standalone_mode, facts), facts.items,
                                  outcome))

(***************************************************************************)
(* The requests of the API: process_message_internal                        *)
(***************************************************************************)
\* the bound on the handle_message calls of a run
MaxCalls == 4

\* the bound on the requests without sessionId
MaxAutos == 1

RECURSIVE SumTurns(_, _)
SumTurns(ss, ids) ==
    IF ids = {} THEN 0
    ELSE SumTurns(ss, ids \ {CHOOSE y \in ids : TRUE}) + ss[CHOOSE y \in ids : TRUE].turn_count

TotalCalls == SumTurns(sessions, DOMAIN sessions)

\* session_id = request.sessionId or f"auto-{uuid.uuid4().hex[:8]}"
RequestSession(sessionId) == IF sessionId # "" THEN sessionId ELSE "auto-" \o ToString(autos + 1)

\* what the extractors and analyzers give for the texts of a set
FactsIn(texts) == {f \in TextFacts : f.text \in texts}

\* a request with a message text: sender = request.message.sender or "scammer"
ProcessMessage(ids, texts, senders) ==
    /\ TotalCalls < MaxCalls
    /\ \E sessionId \in {id \in ids : id = "" => autos < MaxAutos},
          facts \in FactsIn(texts), sender \in senders :
         \E extracted \in facts.extracts :
           \E scored \in {Scored(get_or_create_session(sessions, RequestSession(sessionId))
                                   [RequestSession(sessionId)], facts.detected, extracted)} :
             \E outcome \in GenerativeReplies \cup {"raise", "template"},
                delivery \in Deliveries \cup {"none"} :
               /\ HandleMessage(RequestSession(sessionId), facts,
                                IF sender # "" THEN sender ELSE "scammer",
                                extracted, outcome, delivery, scored)
               /\ autos' = IF sessionId # "" THEN autos ELSE autos + 1
    /\ UNCHANGED <<cfg_vars, probe_vars, thread_vars, fatigue_vars>>

\* Optional values: None is the empty sequence, a value v is <<v>>
None == <<>>

\* IncomingRequest and Message as pydantic builds them: the message is missing,
\* or its text is null, empty, blank or a text
Requests ==
    {[sessionId |-> sessionId, message |-> message] :
       sessionId \in RequestIds,
       message \in {None} \cup {<<[sender |-> "scammer", text |-> text]>> :
                                   text \in {None, <<"">>, <<" ">>, <<"hello">>}}}

\* not request.message or not request.message.text
NoText(request) ==
    IF request.message = None THEN TRUE
    ELSE IF request.message[1].text = None THEN TRUE
    ELSE request.message[1].text[1] = ""

\* a variant of ProcessEmpty that looks the session up before the check
ProcessEmptyWithSession ==
    /\ last.kind # "empty"
    /\ \E request \in Requests :
         /\ NoText(request)
         /\ sessions' = get_or_create_session(sessions, RequestSession(request.sessionId))
    /\ last' = [kind |-> "empty", session_id |-> "", should_callback |-> FALSE,
                invoked |-> FALSE,
                result |-> [engaged |-> FALSE, response |-> "", threat_level |-> 0,
                            scam_type |-> "unknown", intelligence |-> [k \in IntelKeys |-> <<>>],
                            turn_count |-> 0],
                reply |-> [status |-> "success", reply |-> "Please send your message.",
                           scamDetected |-> FALSE, threatLevel |-> 0]]
    /\ UNCHANGED <<autos, callbacks, policy, cfg_vars, probe_vars, orch_vars, thread_vars,
                   fatigue_vars>>

\* a request without message or with an empty text
ProcessEmpty ==
    /\ last.kind # "empty"
    /\ \E request \in Requests : NoText(request)
    /\ last' = [kind |-> "empty", session_id |-> "", should_callback |-> FALSE,
                invoked |-> FALSE,
                result |-> [engaged |-> FALSE, response |-> "", threat_level |-> 0,
                            scam_type |-> "unknown", intelligence |-> [k \in IntelKeys |-> <<>>],
                            turn_count |-> 0],
                reply |-> [status |-> "success", reply |-> "Please send your message.",
                           scamDetected |-> FALSE, threatLevel |-> 0]]
    /\ UNCHANGED <<sessions, autos, callbacks, policy, cfg_vars, probe_vars, orch_vars, thread_vars,
                   fatigue_vars>>

\* the worker threads that run handle_message (thread-pool workers, GUI threads)
Workers == {"w1", "w2"}

\* a worker that runs no call
Idle == [pc |-> "idle"]

\* the sessions the fatigue tracker is asked about
FatigueSessions == {"f1", "f2"}

NoRequest == [kind |-> "none", session_id |-> "", should_callback |-> FALSE,
              invoked |-> FALSE,
              result |-> [engaged |-> FALSE, response |-> "", threat_level |-> 0,
                          scam_type |-> "unknown", intelligence |-> [k \in IntelKeys |-> <<>>],
                          turn_count |-> 0],
              reply |-> [status |-> "", reply |-> "", scamDetected |-> FALSE, threatLevel |-> 0]]

\* SessionManager(): no sessions; the orchestrator is made when the integration
\* and an API key are there (use_ai is then set), in either analyzer mode
InitSM ==
    /\ sessions = <<>>
    /\ autos = 0
    /\ callbacks = <<>>
    /\ policy = <<>>
    /\ last = NoRequest
    /\ active_sessions = <<>>
    /\ session_seq = 0
    /\ threads = [w \in Workers |-> Idle]
    /\ returned = <<>>
    /\ fatigue_events = EmptyBag
    /\ fatigue_scores = [x \in FatigueSessions |-> 0]
    /\ probe = NoProbe
    /\ agent = NoAgent
    /\ handler = NoHandler
    /\ voice_sessions = <<>>
    /\ \/ orchestrator = "none" /\ use_ai = FALSE /\ standalone_mode = TRUE
       \/ orchestrator = "ai" /\ use_ai = TRUE /\ standalone_mode \in BOOLEAN

NextSM == ProcessMessage(RequestIds, Texts, Senders) \/ ProcessEmpty

\* the API of guvi_hackathon_api.py under requests with the texts of Texts
SpecSM == InitSM /\ [][NextSM]_vars

NextPay == ProcessMessage({"s1"}, PaymentTexts, {"scammer"}) \/ ProcessEmpty

\* the same API under payment requests on one session
SpecPay == InitSM /\ [][NextPay]_vars

NextThreat == ProcessMessage({"s1"}, ThreatTexts, {"scammer"})

\* the same API under texts that reach the top of the threat scale
SpecThreat == InitSM /\ [][NextThreat]_vars

(***************************************************************************)
(* AIEnhancedOrchestrator driven directly: the GUI, the voice manager       *)
(***************************************************************************)
\* the bound on the start_session calls of the callers
MaxStarted == 1

\* the bound on the handle_message calls, one after the other
MaxOrchCalls == 3

\* the bound on the handle_message calls of the worker threads
MaxThreadCalls == 2

\* a session id the caller made up (never handed out by start_session)
CallerIds == {"s1"}

InitOrch ==
    /\ sessions = <<>>
    /\ autos = 0
    /\ callbacks = <<>>
    /\ policy = <<>>
    /\ last = NoRequest
    /\ active_sessions = <<>>
    /\ session_seq = 0
    /\ threads = [w \in Workers |-> Idle]
    /\ returned = <<>>
    /\ fatigue_events = EmptyBag
    /\ fatigue_scores = [x \in FatigueSessions |-> 0]
    /\ probe = NoProbe
    /\ agent = NoAgent
    /\ handler = NoHandler
    /\ voice_sessions = <<>>
    /\ orchestrator = "ai"
    /\ use_ai \in BOOLEAN
    /\ standalone_mode \in BOOLEAN

\* orchestrator.start_session()
StartSession ==
    /\ session_seq < MaxStarted
    /\ active_sessions' = Put(active_sessions, StartedId(session_seq + 1), NewOrchSession)
    /\ session_seq' = session_seq + 1
    /\ UNCHANGED <<sm_vars, cfg_vars, probe_vars, thread_vars, fatigue_vars>>

\* what the log keeps of a finished call
Finished(session_id, call, before) ==
    [arg_id     |-> session_id,
     session_id |-> call.result.session_id,
     turn_count |-> call.result.turn_count,
     raised     |-> call.raised,
     items      |-> Len(call.result.extracted_intelligence),
     history    |-> before]

\* the messages of the session a call with this id works on, before the call
HistoryOf(as, session_id) == IF session_id \in DOMAIN as THEN Len(as[session_id].messages) ELSE 0

\* orchestrator.handle_message(message, session_id, sender), from call to return
OrchCall ==
    /\ Len(returned) < MaxOrchCalls
    /\ \E session_id \in CallerIds \cup DOMAIN active_sessions, facts \in FactsIn(OrchTexts) :
         \E outcome \in RespondOutcomes(standalone_mode, use_ai,
                                        orch_analyze(standalone_mode, facts)) :
           \E call \in {orch_handle_message(active_sessions, session_seq, use_ai, facts.text,
                                            session_id, "scammer",
                                            orch_analyze(standalone_mode, facts),
                                            facts.items, outcome)} :
             /\ active_sessions' = call.active_sessions
             /\ session_seq' = call.session_seq
             /\ returned' = Append(returned, Finished(session_id, call,
                                                      HistoryOf(active_sessions, session_id)))
    /\ UNCHANGED <<sm_vars, cfg_vars, probe_vars, threads, fatigue_vars>>

NextSeq == StartSession \/ OrchCall

\* the orchestrator under calls that never overlap
SpecSeq == InitOrch /\ [][NextSeq]_vars

(***************************************************************************)
(* handle_message on worker threads: the statements that read or write the  *)
(* shared session are steps of their own; no lock is taken anywhere.        *)
(***************************************************************************)
Busy == {w \in Workers : threads[w].pc # "idle"}

\* a worker enters handle_message; "if session_id not in self.active_sessions:
\* session_id = self.start_session()" and session = self.active_sessions[session_id]
Begin(w) ==
    /\ threads[w].pc = "idle"
    /\ Len(returned) + Cardinality(Busy) < MaxThreadCalls
    /\ \E session_id \in CallerIds \cup DOMAIN active_sessions, facts \in FactsIn(OrchTexts) :
         /\ active_sessions' = Resolve(active_sessions, session_seq, session_id)
         /\ session_seq' = ResolveSeq(active_sessions, session_seq, session_id)
         /\ threads' = [threads EXCEPT ![w] =
                          [pc         |-> "load",
                           message    |-> facts.text,
                           arg_id     |-> session_id,
                           session_id |-> ResolveId(active_sessions, session_seq, session_id),
                           analysis   |-> orch_analyze(standalone_mode, facts),
                           extracted  |-> facts.items,
                           loaded     |-> 0,
                           turn_count |-> 0]]
    /\ UNCHANGED <<sm_vars, cfg_vars, probe_vars, returned, fatigue_vars>>

\* session['turn_count'] += 1, first half: the value is read
Load(w) ==
    /\ threads[w].pc = "load"
    /\ threads' = [threads EXCEPT ![w].pc = "store",
                                  ![w].loaded = active_sessions[threads[w].session_id].turn_count]
    /\ UNCHANGED <<sm_vars, cfg_vars, probe_vars, orch_vars, returned, fatigue_vars>>

\* session['turn_count'] += 1, second half: the value read, plus one, is stored
Store(w) ==
    /\ threads[w].pc = "store"
    /\ active_sessions' = [active_sessions EXCEPT ![threads[w].session_id].turn_count =
                                                     threads[w].loaded + 1]
    /\ threads' = [threads EXCEPT ![w].pc = "turn"]
    /\ UNCHANGED <<sm_vars, cfg_vars, probe_vars, session_seq, returned, fatigue_vars>>

\* turn_count = session['turn_count']
ReadTurn(w) ==
    /\ threads[w].pc = "turn"
    /\ threads' = [threads EXCEPT ![w].pc = "record",
                                  ![w].turn_count = active_sessions[threads[w].session_id].turn_count]
    /\ UNCHANGED <<sm_vars, cfg_vars, probe_vars, orch_vars, returned, fatigue_vars>>

\* the inbound message is appended, the items are added, the scam type is set
RecordTurn(w) ==
    /\ threads[w].pc = "record"
    /\ active_sessions' = [active_sessions EXCEPT ![threads[w].session_id] =
                              Record(@, threads[w].analysis, threads[w].extracted,
                                     threads[w].message, "scammer")]
    /\ threads' = [threads EXCEPT ![w].pc = "respond"]
    /\ UNCHANGED <<sm_vars, cfg_vars, probe_vars, session_seq, returned, fatigue_vars>>

\* what the log keeps of a worker's call
Done(t, raised) ==
    [arg_id     |-> t.arg_id,
     session_id |-> t.session_id,
     turn_count |-> t.turn_count,
     raised     |-> raised,
     items      |-> Len(t.extracted),
     history    |-> 0]

\* the response is made and appended and the call returns, or the generative
\* path raises and the call ends there
RespondTurn(w) ==
    /\ threads[w].pc = "respond"
    /\ \E outcome \in RespondOutcomes(standalone_mode, use_ai, threads[w].analysis) :
         /\ active_sessions' =
              IF Raised(threads[w].analysis, use_ai, outcome) THEN active_sessions
              ELSE [active_sessions EXCEPT ![threads[w].session_id] =
                      Replied(@, Respond(@, threads[w].analysis, use_ai,
                                         threads[w].turn_count, outcome))]
         /\ returned' = Append(returned, Done(threads[w], Raised(threads[w].analysis, use_ai, outcome)))
    /\ threads' = [threads EXCEPT ![w] = Idle]
    /\ UNCHANGED <<sm_vars, cfg_vars, probe_vars, session_seq, fatigue_vars>>

NextOrch ==
    \/ StartSession
    \/ \E w \in Workers : Begin(w)
    \/ \E w \in Workers : Load(w)
    \/ \E w \in Workers : Store(w)
    \/ \E w \in Workers : ReadTurn(w)
    \/ \E w \in Workers : RecordTurn(w)
    \/ \E w \in Workers : RespondTurn(w)

\* the orchestrator under calls of two worker threads
SpecOrch == InitOrch /\ [][NextOrch]_vars

(***************************************************************************)
(* PsychologicalFatigueTracker and the fatigue_events table                 *)
(* (src/full_honeypot_system.py)                                            *)
(***************************************************************************)
\* the event types of the callers: the five named ones and one that is not named
EventTypes == {"repetition_request", "clarification_needed", "technical_error",
               "delay_tactic", "wrong_information", "long_silence"}

\* the add_event calls of the callers: every event type on one session, a named
\* and an unnamed one on the other
FatigueCalls == ({"f1"} \X EventTypes) \cup ({"f2"} \X {"wrong_information", "long_silence"})

\* self.fatigue_weights.get(event_type, 1)
fatigue_weights(event_type) ==
    CASE event_type = "repetition_request"   -> 2
      [] event_type = "clarification_needed" -> 2
      [] event_type = "technical_error"      -> 3
      [] event_type = "delay_tactic"         -> 2
      [] event_type = "wrong_information"    -> 4
      [] OTHER                               -> 1

\* the bound on the rows of fatigue_events
MaxEvents == 6

\* the sum of fatigue_contribution over the given rows of the table
RECURSIVE SumRows(_, _)
SumRows(B, rows) ==
    IF rows = {} THEN 0
    ELSE SumRows(B, rows \ {CHOOSE r \in rows : TRUE})
           + B[CHOOSE r \in rows : TRUE] * (CHOOSE r \in rows : TRUE).fatigue_contribution

\* SELECT SUM(fatigue_contribution) FROM fatigue_events WHERE session_id = ?
\* and "row[0] if row[0] else 0"
SumContribution(B, session_id) ==
    SumRows(B, {r \in DOMAIN B : r.session_id = session_id})

\* a variant of calculate_score without the cap
UncappedScore(B, session_id) == SumContribution(B, session_id) * 5

\* score = min(100, int(total * 5))
calculate_score(B, session_id) == Min2(100, SumContribution(B, session_id) * 5)

\* INSERT of one row
Insert(B, row) == B (+) SetToBag({row})

\* add_event(session_id, event_type): db.add_fatigue_event(session_id, event_type, weight)
AddEvent ==
    /\ BagCardinality(fatigue_events) < MaxEvents
    /\ \E call \in FatigueCalls :
         fatigue_events' = Insert(fatigue_events,
                                  [session_id |-> call[1], event_type |-> call[2],
                                   fatigue_contribution |-> fatigue_weights(call[2])])
    /\ UNCHANGED <<sm_vars, cfg_vars, probe_vars, orch_vars, thread_vars, fatigue_scores>>

\* calculate_score(session_id): the score is stored in the session's row and returned
CalculateScore ==
    /\ \E session_id \in FatigueSessions :
         fatigue_scores' = [fatigue_scores EXCEPT ![session_id] =
                              calculate_score(fatigue_events, session_id)]
    /\ UNCHANGED <<sm_vars, cfg_vars, probe_vars, orch_vars, thread_vars, fatigue_events>>

\* the tracker of full_honeypot_system, which runs in standalone mode
InitFatigue == InitOrch /\ standalone_mode /\ ~use_ai

NextFatigue == AddEvent \/ CalculateScore

\* the fatigue tracker under events of two sessions
SpecFatigue == InitFatigue /\ [][NextFatigue]_vars

(***************************************************************************)
(* ScamAnalyzer and PersonaAgent of src/full_honeypot_system.py, called on  *)
(* one text                                                                 *)
(***************************************************************************)
\* PERSONA_TYPES[persona_type]["responses"]
PERSONA_TYPES ==
    [confused_elderly    |-> <<"Beta, ek baar aur boliye? Samajh nahi aaya.",
                               "My phone is old, network problem. Can you repeat?",
                               "I am not understanding properly. Please say again slowly.">>,
     eager_victim        |-> <<"Yes sir, I want to do it! What should I do first?",
                               "Okay, I am ready! Tell me the steps please.",
                               "I am worried beta, please help me fix this quickly!">>,
     technical_struggler |-> <<"App is not opening sir. Showing some error.",
                               "My phone is hanging. Wait let me restart.",
                               "This OTP screen is not coming. What to do?">>]

\* PersonaAgent.select_response: the persona that answers
select_persona(scammer_persona) ==
    IF scammer_persona = "aggressive" THEN "confused_elderly"
    ELSE IF scammer_persona = "polite" THEN "eager_victim"
    ELSE "technical_struggler"

\* random.choice(PERSONA_TYPES[persona_type]["responses"]): every entry is an outcome
select_response(scammer_persona) == Range(PERSONA_TYPES[select_persona(scammer_persona)])

\* the words and phrases the analyzed messages are made of
AnalyzeWords == {"must", "immediately", "please", "kindly", "pay", "hello", "1234", "police",
                 "now", "have to", "kyc", "bank account otp blocked"}

\* the analyzed messages: up to two of the words, and the empty message
AnalyzeTexts ==
    {""} \cup AnalyzeWords \cup {a \o " " \o b : a \in AnalyzeWords, b \in AnalyzeWords}

\* nothing has been asked of the session manager, the orchestrator, the tracker
\* or the generative responder
AtRest ==
    /\ sessions = <<>>
    /\ autos = 0
    /\ callbacks = <<>>
    /\ policy = <<>>
    /\ last = NoRequest
    /\ active_sessions = <<>>
    /\ session_seq = 0
    /\ threads = [w \in Workers |-> Idle]
    /\ returned = <<>>
    /\ fatigue_events = EmptyBag
    /\ fatigue_scores = [x \in FatigueSessions |-> 0]
    /\ orchestrator = "none"
    /\ use_ai = FALSE
    /\ standalone_mode = TRUE
    /\ agent = NoAgent
    /\ handler = NoHandler
    /\ voice_sessions = <<>>

\* a function is about to be called on one of the texts
Given(texts) == probe \in {[fn |-> "none", text |-> text] : text \in texts}

InitAnalyze == AtRest /\ Given(AnalyzeTexts)

\* analysis = ScamAnalyzer().analyze(message)
Analyze ==
    /\ probe.fn = "none"
    /\ probe' = [fn |-> "analyze", text |-> probe.text, out |-> analyze(probe.text)]
    /\ UNCHANGED <<sm_vars, cfg_vars, orch_vars, thread_vars, fatigue_vars, agent, call_vars>>

\* PersonaAgent.generate_response(analysis, history, turn_count)
SelectResponse ==
    /\ probe.fn = "analyze"
    /\ \E response \in select_response(probe.out.scammer_persona) :
         probe' = [fn |-> "select_response", text |-> probe.text, out |-> probe.out,
                   persona_type |-> select_persona(probe.out.scammer_persona),
                   response |-> response]
    /\ UNCHANGED <<sm_vars, cfg_vars, orch_vars, thread_vars, fatigue_vars, agent, call_vars>>

NextAnalyze == Analyze \/ SelectResponse

\* the analyzer and the mirroring persona of full_honeypot_system on one message
SpecAnalyze == InitAnalyze /\ [][NextAnalyze]_vars

(***************************************************************************)
(* The three extractors, each called on one text                            *)
(***************************************************************************)
\* accounts = [acc for acc in re.findall(self.account_pattern, message) if len(acc) >= 10]
full_bank_accounts(message) ==
    SelectSeq(FindIter("full_account_pattern", message), LAMBDA acc : Len(acc) >= 10)

\* the text of the documentation's example
ExampleText == "URGENT: your account is blocked, pay to 9876543210@paytm, call 9876543210"

\* a run of n digits
Run(n) == SubSeq("1234567890123456789", 1, n)

\* the lengths of the digit runs given to the extractors
RunLengths == 8..19

\* a digit run standing alone, and one between words
AccountText(shape, n) == IF shape = "alone" THEN Run(n) ELSE "acc " \o Run(n) \o " ok"

AccountTexts == {AccountText(shape, n) : shape \in {"alone", "words"}, n \in RunLengths}

\* mobile numbers of 10 digits that start with 6-9; two of them start with 91
MobileNumbers == {"9876543210", "6000000001", "9123456789", "9198765432"}

\* the ways the country code is written before a number ("" is a bare number)
CountryCodes == {"", "+91", "+91-", "+91 ", "91"}

PhoneText(shape, code, number) ==
    IF shape = "alone" THEN code \o number ELSE "call " \o code \o number \o " now"

PhoneTexts == {PhoneText(shape, code, number) :
                 shape \in {"alone", "words"}, code \in CountryCodes, number \in MobileNumbers}

\* texts without handle, number or keyword, with a provider's name only, and
\* with an e-mail address
PlainTexts == {"", "hello", "ok 123", "send 1234", "use paytm", "Gpay karo",
               "mail bob@mail.com", "send money"}

ExtractTexts == {ExampleText} \cup AccountTexts \cup PhoneTexts \cup PlainTexts

InitExtract == AtRest /\ Given(ExtractTexts)

\* UnifiedIntelligenceExtractor().extract_all(text)
ExtractAll ==
    /\ probe.fn = "none"
    /\ probe' = [fn |-> "extract_all", text |-> probe.text, out |-> extract_all(probe.text)]
    /\ UNCHANGED <<sm_vars, cfg_vars, orch_vars, thread_vars, fatigue_vars, agent, call_vars>>

\* AggressiveIntelligenceExtractor().extract(text)
Extract ==
    /\ probe.fn = "none"
    /\ \E keywords \in KeywordOrders(probe.text) :
         probe' = [fn |-> "extract", text |-> probe.text, out |-> extract(probe.text, keywords)]
    /\ UNCHANGED <<sm_vars, cfg_vars, orch_vars, thread_vars, fatigue_vars, agent, call_vars>>

\* IntelligenceExtractor(db).extract_all(message, session_id): the bank accounts
ExtractAccounts ==
    /\ probe.fn = "none"
    /\ probe' = [fn |-> "full_extract_all", text |-> probe.text,
                 out |-> [bank_accounts |-> full_bank_accounts(probe.text)]]
    /\ UNCHANGED <<sm_vars, cfg_vars, orch_vars, thread_vars, fatigue_vars, agent, call_vars>>

NextExtract == ExtractAll \/ Extract \/ ExtractAccounts

\* the extractors on texts with handles, mobile numbers and digit runs
SpecExtract == InitExtract /\ [][NextExtract]_vars

(***************************************************************************)
(* A fault inside SessionManager.handle_message (src/guvi_hackathon_api.py) *)
(***************************************************************************)
\* the steps of handle_message outside its try: STEP 1 self.extractor.extract,
\* STEP 2 self.detect_scam_type, STEP 3 self.response_gen.generate
FaultSteps == {"extract", "detect_scam_type", "generate"}

\* the routes that call process_message_internal
Endpoints == {"/api/message", "/"}

\* the texts of the requests that meet a fault
FaultTexts == {"pay to abc@ybl", "hello"}

\* the session as handle_message leaves it when the step raises: the turn is
\* counted, and the statements before the step have run
Faulted(session, detected, extracted, step) ==
    IF step = "extract" THEN [session EXCEPT !.turn_count = @ + 1]
    ELSE IF step = "detect_scam_type"
    THEN [session EXCEPT !.turn_count = @ + 1,
                         !.intelligence = merge_intelligence(@, extracted)]
    ELSE Scored(session, detected, extracted)

\* the answer of the route when process_message_internal raises: the except of
\* handle_root_post; handle_api_message has none and the exception leaves it
FaultAnswer(endpoint) ==
    IF endpoint = "/"
    THEN [status |-> "success", reply |-> "Processing your request...",
          scamDetected |-> FALSE, threatLevel |-> 0]
    ELSE NoRequest.reply

\* a request with a message text, on one of the routes, whose turn raises at a step
ProcessFault(ids, texts) ==
    /\ TotalCalls < MaxCalls
    /\ \E sessionId \in ids, facts \in FactsIn(texts), step \in FaultSteps,
          endpoint \in Endpoints :
         \E extracted \in facts.extracts,
            ss \in {get_or_create_session(sessions, sessionId)} :
           \E faulted \in {Faulted(ss[sessionId], facts.detected, extracted, step)} :
             /\ step = "generate" => ~Asked(orchestrator, faulted)
             /\ sessions' = [ss EXCEPT ![sessionId] = faulted]
             /\ callbacks' = [x \in DOMAIN ss |-> CallbacksOf(x)]
             /\ policy' = [x \in DOMAIN ss |->
                             IF x = sessionId
                             THEN [PolicyOf(x) EXCEPT !.handled = @ + 1]
                             ELSE policy[x]]
             /\ last' = [kind |-> "fault", session_id |-> sessionId,
                         should_callback |-> FALSE, invoked |-> FALSE,
                         result |-> NoRequest.result,
                         step |-> step, endpoint |-> endpoint,
                         escaped |-> endpoint # "/",
                         reply |-> FaultAnswer(endpoint)]
    /\ UNCHANGED <<autos, cfg_vars, probe_vars, orch_vars, thread_vars, fatigue_vars>>

InitFault == InitSM /\ orchestrator = "none"

NextFault == ProcessMessage({"s1"}, FaultTexts, {"scammer"}) \/ ProcessFault({"s1"}, FaultTexts)

\* the API without orchestrator under turns that complete and turns that raise
SpecFault == InitFault /\ [][NextFault]_vars

(***************************************************************************)
(* OpenRouterPersonaAgent.generate_response (src/openrouter_integration.py) *)
(***************************************************************************)
\* enhanced_honeypot_agent.SCAM_PATTERNS, in the order of the dictionary
SCAM_PATTERN_TYPES == <<"kyc_block", "refund", "account_upgrade", "pension_block", "digital_arrest">>

SCAM_PATTERNS ==
    [kyc_block |->
       [keywords |-> <<"kyc", "incomplete", "blocked", "verify", "expire", "update kyc">>,
        response_hooks |-> <<"KYC? Maine toh sab submit kar diya tha...",
                             "Block ho jayega? Mere saare paise usi account mein hain!",
                             "Kab karna hai ye? Aaj hi?">>],
     refund |->
       [keywords |-> <<"refund", "cashback", "return", "wrong payment", "double charge">>,
        response_hooks |-> <<"Refund? Par maine koi order cancel nahi kiya...",
                             "Kitna amount hai? Kaunse order ka?",
                             "Mere paas aa raha hai ya maine bheja?">>],
     account_upgrade |->
       [keywords |-> <<"upgrade", "update account", "new version", "security update">>,
        response_hooks |-> <<"Upgrade? Par mere app toh automatic update ho jaate hain...",
                             "Kya karna padega? Difficult toh nahi hoga?",
                             "Kuch paisa lagega kya?">>],
     pension_block |->
       [keywords |-> <<"pension", "subsidy", "government", "scheme", "aadhar">>,
        response_hooks |-> <<"Pension band ho jayega?? Main kaise jiyungi!",
                             "Aadhar card chahiye? Wo kahan rakha hai...",
                             "Mere husband ko phone karu?">>],
     digital_arrest |->
       [keywords |-> <<"police", "arrest", "illegal", "case", "court", "cbi", "investigation">>,
        response_hooks |-> <<"Arrest?? Maine kya kiya? Main toh sirf ghar ka kaam karti hoon!",
                             "Police? Mere husband ko phone karu jaldi?",
                             "Kya case hai? Main toh kuch nahi jaanti!">>]]

\* enhanced_honeypot_agent.detect_scam_type(message): the first type of the
\* highest score, "unknown" when no keyword is in the message
enhanced_detect_scam_type(message) ==
    LET score(k) == Hits(SCAM_PATTERNS[SCAM_PATTERN_TYPES[k]].keywords, message)
        top == MaxOf({score(k) : k \in 1..Len(SCAM_PATTERN_TYPES)})
    IN  IF top = 0 THEN "unknown"
        ELSE SCAM_PATTERN_TYPES[CHOOSE k \in 1..Len(SCAM_PATTERN_TYPES) :
                                   /\ score(k) = top
                                   /\ \A j \in 1..(k - 1) : score(j) # top]

\* OpenRouterPersonaAgent._simple_scam_detection(message)
simple_scam_detection(message) ==
    IF Hits(<<"bank", "account", "otp", "blocked", "suspended">>, message) > 0 THEN "bank_fraud"
    ELSE IF Hits(<<"upi", "paytm", "phonepe", "cashback", "prize", "won">>, message) > 0
    THEN "upi_fraud"
    ELSE IF Hits(<<"http", "click", "link", "offer", "deal">>, message) > 0 THEN "phishing"
    ELSE "unknown"

\* the templates of _fallback_response
fallback_templates ==
    [bank_fraud |-> <<"Oh no! My account is blocked? What should I do sir?",
                      "I'm very worried. How can I verify this?",
                      "Should I share my OTP? Is this the bank?",
                      "Let me check my bank app first... ek minute.",
                      "What number should I call to confirm?",
                      "Sir please help, I don't want my account blocked!",
                      "Can you send verification link?",
                      "I have the OTP ready. Where to send?",
                      "This is urgent? Should I go to bank branch?",
                      "Okay I will do as you say. What next?">>,
     upi_fraud  |-> <<"Really? I won cashback? Thank you so much!",
                      "How do I claim this reward sir?",
                      "Which UPI ID should I send to?",
                      "Is this really from Paytm official?",
                      "Do I need to pay anything to claim?",
                      "Amazing! What details you need?",
                      "Can I get in bank account instead?",
                      "How long is this valid sir?",
                      "Should I download any app?",
                      "Okay sending details. Please confirm.">>,
     phishing   |-> <<"iPhone for Rs 999? This is amazing!",
                      "Let me click link... wait is it safe?",
                      "How do I know this is genuine?",
                      "Can you send COD? I'm not sure...",
                      "What if I don't get the product?",
                      "This seems too good. Are you sure?",
                      "Should I share card details?",
                      "Offer expires soon? Let me think...",
                      "Can I call customer care first?",
                      "Okay I will try. What after that?">>,
     unknown    |-> <<"Sorry, I don't understand clearly.",
                      "What do you need from me exactly?",
                      "Can you explain again?",
                      "Who is this? Which company?",
                      "How did you get my number?",
                      "Is this some kind of offer?",
                      "Please send more details.">>]

\* a variant of fallback_responses that keeps the templates in one list
AnyTemplate(enhanced, scam_type) ==
    fallback_templates.bank_fraud \o fallback_templates.upi_fraud
      \o fallback_templates.phishing \o fallback_templates.unknown

\* the list _fallback_response chooses from: the response hooks of the scam type
\* in enhanced mode, else templates.get(scam_type, templates['unknown'])
fallback_responses(enhanced, scam_type) ==
    IF enhanced /\ scam_type \in DOMAIN SCAM_PATTERNS THEN SCAM_PATTERNS[scam_type].response_hooks
    ELSE IF scam_type \in DOMAIN fallback_templates THEN fallback_templates[scam_type]
    ELSE fallback_templates.unknown

\* _fallback_response(scam_type, turn_count, message), the outcomes of its random
\* draws: random.choice of the hooks in enhanced mode; else entry turn_count when
\* the list has one and random.random() < 0.8, else random.choice of the list
fallback_response(enhanced, scam_type, turn_count) ==
    IF enhanced /\ scam_type \in DOMAIN SCAM_PATTERNS
    THEN Range(fallback_responses(enhanced, scam_type))
    ELSE (IF turn_count <= Len(fallback_responses(enhanced, scam_type))
          THEN {fallback_responses(enhanced, scam_type)[turn_count]} ELSE {})
           \cup Range(fallback_responses(enhanced, scam_type))

\* full_honeypot_system.PERSONA_CONFIG, the persona_config of standalone mode
full_PERSONA_CONFIG ==
    [name |-> "Mrs. Kavita", age |-> "65", location |-> "Mumbai", occupation |-> "Retired Teacher"]

\* the persona OpenRouterPersonaAgent.__init__ takes when persona_config is None
default_persona ==
    [name |-> "Mrs. Kavita Sharma", gender |-> "female", age |-> "52",
     occupation |-> "homemaker", language |-> "hinglish"]

\* self.persona of the agent AIEnhancedOrchestrator.__init__ builds
persona(standalone) == IF standalone THEN full_PERSONA_CONFIG ELSE default_persona

\* the keys of self.persona the user prompt reads with self.persona[...]
PromptKeys == {"name", "gender", "occupation", "age"}

\* timeout = 15 if attempt == 0 else (10 if attempt == 1 else 8)
timeout(attempt) == IF attempt = 0 THEN 15 ELSE IF attempt = 1 THEN 10 ELSE 8

\* str.strip(chars)
Strip(s, chars) ==
    LET keep == {i \in 1..Len(s) : Ch(s, i) \notin chars}
    IN  IF keep = {} THEN ""
        ELSE SubSeq(s, CHOOSE i \in keep : \A j \in keep : i <= j,
                       CHOOSE i \in keep : \A j \in keep : j <= i)

\* ai_response[:200].rsplit('.', 1)[0] + '.'
Shorten(ai_response) ==
    LET head == SubSeq(ai_response, 1, 200)
        dots == {i \in 1..Len(head) : Ch(head, i) = "."}
    IN  (IF dots = {} THEN head ELSE SubSeq(head, 1, MaxOf(dots) - 1)) \o "."

\* the reply made of the content of a 200 answer
CleanReply(content) ==
    LET ai_response == Strip(Strip(Strip(Strip(content, SpaceChars), {"\""}), {"'"}), SpaceChars)
    IN  IF Len(ai_response) > 200 THEN Shorten(ai_response) ELSE ai_response

\* the ways one requests.post can fail to give a reply: the request raises, the
\* status is not 200, the body of a 200 answer has no choices[0].message.content
Failures == {"exception", "status", "malformed"}

LongContent ==
    "Arre beta, main samajh nahi pa rahi hoon. Aap kaun se bank se bol rahe ho? "
      \o "Mera account toh theek chal raha tha kal tak. Ek minute ruko, main chashma "
      \o "dhoondh rahi hoon. Aap apna naam aur employee ID bata do, main likh leti hoon. Theek hai?"

\* the content of the 200 answers of the backend
Contents == {"Kya? Mera account block ho jayega?", " \"Haan ji, ek minute...\" ", LongContent}

\* the scammer messages the agent is asked to answer
AgentTexts ==
    {"hello", "your otp is blocked", "police case", "click the link", "you won cashback"}

\* the largest turn_count of a call
MaxTurn == 8

InitAgent == InitOrch /\ use_ai

\* generate_response(...) up to the retry loop: the scam type and the user prompt
GenerateResponse ==
    /\ use_ai
    /\ agent.pc = "idle"
    /\ \E enhanced \in BOOLEAN, current_message \in AgentTexts, turn_count \in 1..MaxTurn :
         agent' = [pc |-> IF PromptKeys \subseteq DOMAIN persona(standalone_mode)
                          THEN "attempt" ELSE "raised",
                   enhanced |-> enhanced,
                   current_message |-> current_message,
                   turn_count |-> turn_count,
                   scam_type |-> IF enhanced THEN enhanced_detect_scam_type(current_message)
                                 ELSE simple_scam_detection(current_message),
                   attempt |-> 0, timeouts |-> <<>>, outcomes |-> <<>>,
                   via |-> "none", result |-> ""]
    /\ UNCHANGED <<sm_vars, cfg_vars, orch_vars, thread_vars, fatigue_vars, probe, call_vars>>

\* one pass of "for attempt in range(3)"
Attempt ==
    /\ agent.pc = "attempt"
    /\ \/ \E content \in Contents :
            agent' = [agent EXCEPT !.pc = "returned", !.via = "backend",
                                   !.timeouts = Append(@, timeout(agent.attempt)),
                                   !.outcomes = Append(@, "ok"),
                                   !.result = CleanReply(content)]
       \/ \E failure \in Failures :
            IF agent.attempt = 2
            THEN \E response \in fallback_response(agent.enhanced, agent.scam_type,
                                                   agent.turn_count) :
                   agent' = [agent EXCEPT !.pc = "returned", !.via = "fallback",
                                          !.timeouts = Append(@, timeout(agent.attempt)),
                                          !.outcomes = Append(@, failure),
                                          !.result = response]
            ELSE agent' = [agent EXCEPT !.attempt = @ + 1,
                                        !.timeouts = Append(@, timeout(agent.attempt)),
                                        !.outcomes = Append(@, failure)]
    /\ UNCHANGED <<sm_vars, cfg_vars, orch_vars, thread_vars, fatigue_vars, probe, call_vars>>

NextAgent == GenerateResponse \/ Attempt

\* one call of the generative responder against every behaviour of the backend
SpecAgent == InitAgent /\ [][NextAgent]_vars

(***************************************************************************)
(* One turn of SessionManager.handle_message, statement by statement, with  *)
(* the delivery of the report (send_callback)                               *)
(***************************************************************************)
\* the texts of the turns: one that is scored a scam and has a handle, one that
\* is neither
DeliverTexts == {"urgent otp Abc@YBL", "hello"}

\* handle_message up to STEP 4 (the session is scored and both messages are
\* saved) and the test of STEP 5; no orchestrator is asked
BeginTurn(ids, texts) ==
    /\ handler.pc = "idle"
    /\ TotalCalls < MaxCalls
    /\ \E session_id \in ids, facts \in FactsIn(texts) :
         \E extracted \in facts.extracts,
            ss \in {get_or_create_session(sessions, session_id)} :
           \E scored \in {Scored(ss[session_id], facts.detected, extracted)} :
             \E saved \in {Saved(scored, "scammer", facts.text,
                                 generate(extracted, scored.turn_count, scored.scam_type))} :
               /\ ~Asked(orchestrator, scored)
               /\ sessions' = [ss EXCEPT ![session_id] = saved]
               /\ callbacks' = [x \in DOMAIN ss |-> CallbacksOf(x)]
               /\ handler' = [pc |-> IF CallbackDue(saved, saved.turn_count)
                                     THEN "send_callback" ELSE "return",
                              session_id |-> session_id,
                              should_callback |-> should_callback(saved, saved.turn_count),
                              invoked |-> CallbackDue(saved, saved.turn_count),
                              posted |-> "none",
                              result |-> [engaged      |-> saved.scam_detected,
                                          response     |-> saved.messages[Len(saved.messages)].text,
                                          threat_level |-> facts.detected[2],
                                          scam_type    |-> facts.detected[1],
                                          intelligence |-> saved.intelligence,
                                          turn_count   |-> saved.turn_count]]
    /\ UNCHANGED <<autos, last, policy, cfg_vars, orch_vars, thread_vars, fatigue_vars, probe,
                   agent, voice_sessions>>

\* send_callback up to requests.post(GUVI_CALLBACK_URL, json=payload, timeout=10):
\* the payload is composed and the request is sent
SendCallback ==
    /\ handler.pc = "send_callback"
    /\ handler' = [handler EXCEPT !.pc = "post",
                                  !.posted = "in flight"]
    /\ UNCHANGED <<sm_vars, cfg_vars, orch_vars, thread_vars, fatigue_vars, probe, agent,
                   voice_sessions>>

\* requests.post ends: the sink answers (200 or another status) or the request
\* raises (no connection, or the timeout of 10 s); send_callback returns
PostEnds ==
    /\ handler.pc = "post"
    /\ \E delivery \in Deliveries :
         /\ sessions' = [sessions EXCEPT ![handler.session_id] = MarkSent(@, delivery)]
         /\ callbacks' = [callbacks EXCEPT ![handler.session_id] =
                            Append(@, [turn |-> handler.result.turn_count,
                                       delivery |-> delivery,
                                       payload |-> Payload(sessions[handler.session_id],
                                                           handler.session_id)])]
         /\ handler' = [handler EXCEPT !.pc = "return", !.posted = delivery]
    /\ UNCHANGED <<autos, last, policy, cfg_vars, orch_vars, thread_vars, fatigue_vars, probe,
                   agent, voice_sessions>>

\* handle_message returns and process_message_internal makes the AgentResponse
Return ==
    /\ handler.pc = "return"
    /\ last' = [kind |-> "turn", session_id |-> handler.session_id,
                should_callback |-> handler.should_callback,
                invoked |-> handler.invoked,
                result |-> handler.result,
                reply |-> [status |-> "success", reply |-> handler.result.response,
                           scamDetected |-> handler.result.engaged,
                           threatLevel  |-> handler.result.threat_level]]
    /\ handler' = NoHandler
    /\ UNCHANGED <<sessions, autos, callbacks, policy, cfg_vars, orch_vars, thread_vars,
                   fatigue_vars, probe, agent, voice_sessions>>

InitDeliver == InitSM /\ orchestrator = "none"

NextDeliver == BeginTurn({"s1", "s2"}, DeliverTexts) \/ SendCallback \/ PostEnds \/ Return

\* the turns of the API without orchestrator; the handler takes its own steps,
\* the report sink and the clock of the timeout need not take theirs
SpecDeliver ==
    InitDeliver /\ [][NextDeliver]_vars /\ WF_vars(SendCallback) /\ WF_vars(Return)

(***************************************************************************)
(* Whole turns of two sessions, in any order                                *)
(***************************************************************************)
\* the session ids of two callers
PairIds == {"A", "B"}

NextPair == ProcessMessage(PairIds, DeliverTexts, {"scammer"})

\* the API under the turns of two sessions
SpecPair == InitSM /\ [][NextPair]_vars

(***************************************************************************)
(* EnhancedVoiceManager (src/simple_fastapi_honeypot.py): /call/start and    *)
(* /call/text                                                               *)
(***************************************************************************)
\* the call ids of the requests; "c2" is never started
CallIds == {"c1", "c2"}

\* what generate_response hands back to handle_message: a reply, an empty reply
\* (the backend's content was empty), or "raise"
VoiceOutcomes(standalone) ==
    IF standalone THEN GenerateOutcomes(standalone) ELSE GenerateOutcomes(standalone) \cup {""}

\* the result process_text makes up when the last attempt raised
process_text_fallback ==
    [response |-> "Ek minute... network thoda slow hai. Aap phir se boliye?",
     analysis |-> [threat_level |-> 0],
     extracted_intelligence |-> <<>>]

\* result after "for attempt in range(2)": the first result when it has a
\* response; else the second call's, or the made-up one when that call raised
process_text_result(first, second) ==
    IF ~first.raised /\ first.result.response # "" THEN first.result
    ELSE IF second.raised THEN process_text_fallback
    ELSE second.result

\* what process_text returns for the result
process_text_return(result) ==
    IF result.response = "" THEN [error |-> "Could not generate response"]
    ELSE [response_text |-> result.response,
          intelligence  |-> result.extracted_intelligence,
          threat_level  |-> result.analysis.threat_level]

\* active_sessions after the attempts: the second call is made when the first
\* raised or gave no response
process_text_attempts(first, second) ==
    IF ~first.raised /\ first.result.response # "" THEN first.active_sessions
    ELSE second.active_sessions

\* POST /call/start: manager.start_call(call_id, mode)
StartCall ==
    /\ session_seq < MaxStarted
    /\ \E call_id \in {"c1"} :
         voice_sessions' = Put(voice_sessions, call_id,
                               [session_id |-> StartedId(session_seq + 1), turns |-> 0])
    /\ active_sessions' = Put(active_sessions, StartedId(session_seq + 1), NewOrchSession)
    /\ session_seq' = session_seq + 1
    /\ UNCHANGED <<sm_vars, cfg_vars, thread_vars, fatigue_vars, probe, agent, handler>>

\* POST /call/text for a call id that was not started
ProcessTextUnknown ==
    /\ \E call_id \in CallIds \ DOMAIN voice_sessions, text \in OrchTexts :
         probe' = [fn |-> "process_text", text |-> text, call_id |-> call_id,
                   started |-> FALSE, out |-> [error |-> "Call not found"]]
    /\ UNCHANGED <<sm_vars, cfg_vars, orch_vars, thread_vars, fatigue_vars, agent, call_vars>>

\* POST /call/text: manager.process_text(call_id, text) for a started call
ProcessText ==
    \E call_id \in DOMAIN voice_sessions, facts \in FactsIn(OrchTexts) :
      \E session_id \in {voice_sessions[call_id].session_id},
         analysis \in {orch_analyze(standalone_mode, facts)} :
        /\ active_sessions[session_id].turn_count < MaxOrchCalls
        /\ \E outcome1 \in IF analysis.should_engage /\ use_ai
                           THEN VoiceOutcomes(standalone_mode) ELSE {"template"} :
             \E first \in {orch_handle_message(active_sessions, session_seq, use_ai, facts.text,
                                               session_id, "scammer_voice", analysis,
                                               facts.items, outcome1)} :
               \E outcome2 \in IF analysis.should_engage /\ use_ai
                               THEN VoiceOutcomes(standalone_mode) ELSE {"template"} :
                 \E second \in {orch_handle_message(first.active_sessions, session_seq, use_ai,
                                                    facts.text, session_id, "scammer_voice",
                                                    analysis, facts.items, outcome2)} :
                   \E result \in {process_text_result(first, second)} :
                     /\ active_sessions' = process_text_attempts(first, second)
                     /\ voice_sessions' =
                          IF result.response = "" THEN voice_sessions
                          ELSE [voice_sessions EXCEPT ![call_id].turns = @ + 1]
                     /\ probe' = [fn |-> "process_text", text |-> facts.text,
                                  call_id |-> call_id, started |-> TRUE,
                                  out |-> process_text_return(result)]
    /\ UNCHANGED <<sm_vars, cfg_vars, session_seq, thread_vars, fatigue_vars, agent, handler>>

NextVoice == StartCall \/ ProcessTextUnknown \/ ProcessText

\* the voice manager under /call/start and /call/text requests
SpecVoice == InitOrch /\ [][NextVoice]_vars

(***************************************************************************)
(* The turns of one session whose messages carry an e-mail address          *)
(***************************************************************************)
NextMerge == ProcessMessage({"s1"}, MergeTexts, {"scammer"})

SpecMerge == InitSM /\ [][NextMerge]_vars

(***************************************************************************)
(* The turns of one session under the sender labels of the requests         *)
(***************************************************************************)
\* request.message.sender: 'scammer', the default of Message ("unknown") when
\* the request names none, and null ("")
SenderLabels == {"scammer", "unknown", ""}

NextSender == ProcessMessage({"s1"}, DeliverTexts, SenderLabels)

SpecSender == InitSM /\ [][NextSender]_vars

(***************************************************************************)
(* The properties                                                           *)
(***************************************************************************)
\* C1: send_callback is invoked at most once per session, over any sequence of
\* turns and whatever the outcome of each delivery (status 200, another status,
\* an exception).
C1_CallbackAtMostOnce == \A x \in DOMAIN callbacks : Len(callbacks[x]) <= 1

\* C2: the report is sent on the first turn at which the session has been
\* engage-worthy on this or an earlier turn, has three turns, and has
\* intelligence or a session threat level of 7 -- and on no earlier turn.
C2_ReportOnFirstDueTurn ==
    \A x \in DOMAIN policy :
        /\ policy[x].due_turns # <<>> =>
              /\ callbacks[x] # <<>>
              /\ callbacks[x][1].turn = policy[x].due_turns[1]
        /\ callbacks[x] # <<>> => policy[x].due_turns # <<>>

\* C3: on a fresh session, when every turn's message has a payment keyword and
\* a payment handle, the callback condition is false on turns 1 and 2 and true
\* on turn 3, where the report is sent.
C3_ThirdPaymentTurnReports ==
    last.kind = "turn" =>
        /\ last.result.turn_count \in {1, 2} => ~last.should_callback
        /\ last.result.turn_count = 3 => last.should_callback /\ last.invoked

\* C4: the stored threat_level of every session is an integer in 0..10, and no
\* handle_message call lowers it, whatever the threat of the new message.
C4_ThreatLevelBoundedMonotone ==
    [][\A x \in DOMAIN sessions' :
          /\ sessions'[x].threat_level \in 0..10
          /\ x \in DOMAIN sessions => sessions'[x].threat_level >= sessions[x].threat_level]_vars

\* a message without indicators was handled on a session whose threat level is 10
C4_Witness ==
    /\ last.kind = "turn"
    /\ last.result.threat_level = 0
    /\ last.session_id \in DOMAIN sessions
    /\ sessions[last.session_id].threat_level = 10
    /\ sessions[last.session_id].turn_count >= 2

\* the turn count a session id has before it has a session
TurnsOf(ss, x) == IF x \in DOMAIN ss THEN ss[x].turn_count ELSE 0

\* C5: turn_count grows by exactly one per handled message and by nothing else:
\* it equals the number of inbound messages handled for the session id, and a
\* request rejected as empty leaves every session as it was.
C5_TurnCountCountsMessages ==
    /\ [](\A x \in DOMAIN sessions : sessions[x].turn_count = policy[x].handled)
    /\ [][/\ last'.kind = "empty" => sessions' = sessions
          /\ last'.kind = "turn" =>
               \A x \in DOMAIN sessions' :
                  sessions'[x].turn_count =
                     TurnsOf(sessions, x) + (IF x = last'.session_id THEN 1 ELSE 0)]_vars

\* an empty request came after two messages of one session
C5_Witness ==
    /\ last.kind = "empty"
    /\ \E x \in DOMAIN sessions : sessions[x].turn_count >= 2

\* the calls of the log that worked on one session
CallsOn(id) == SelectSeq(returned, LAMBDA r : r.session_id = id)

RECURSIVE SumItems(_)
SumItems(calls) == IF Len(calls) = 0 THEN 0 ELSE calls[1].items + SumItems(Tail(calls))

\* C6: when the calls of the worker threads have finished, every session's
\* turn_count has grown by one per call, the calls saw distinct turn indices,
\* and the inbound messages, the replies and the extracted items of all calls
\* are in the session.
C6_NoLostUpdates ==
    Busy = {} =>
      \A id \in DOMAIN active_sessions :
        /\ active_sessions[id].turn_count = Len(CallsOn(id))
        /\ \A i, j \in 1..Len(CallsOn(id)) :
              CallsOn(id)[i].turn_count = CallsOn(id)[j].turn_count => i = j
        /\ CountScammer(active_sessions[id].messages) = Len(CallsOn(id))
        /\ Len(SelectSeq(active_sessions[id].messages, LAMBDA m : m.sender = "honeypot"))
             = Len(SelectSeq(CallsOn(id), LAMBDA r : ~r.raised))
        /\ Len(active_sessions[id].intelligence) = SumItems(CallsOn(id))

\* C7: every category list of a session's intelligence holds each value at most
\* once, and a value once in a list stays there, at its place.
C7_IntelligenceUniqueAppendOnly ==
    /\ [](\A x \in DOMAIN sessions : \A k \in IntelKeys :
            \A i, j \in 1..Len(sessions[x].intelligence[k]) :
               sessions[x].intelligence[k][i] = sessions[x].intelligence[k][j] => i = j)
    /\ [][\A x \in DOMAIN sessions : \A k \in IntelKeys :
            /\ x \in DOMAIN sessions'
            /\ Len(sessions'[x].intelligence[k]) >= Len(sessions[x].intelligence[k])
            /\ SubSeq(sessions'[x].intelligence[k], 1, Len(sessions[x].intelligence[k]))
                 = sessions[x].intelligence[k]]_vars

\* one session was sent the handle twice, in two spellings, and keeps it once
C7_Witness ==
    \E x \in DOMAIN sessions :
        /\ sessions[x].intelligence.upiIds = <<"abc@ybl">>
        /\ \E i, j \in 1..Len(sessions[x].messages) :
              /\ sessions[x].messages[i].text = "pay to abc@ybl"
              /\ sessions[x].messages[j].text = "urgent otp Abc@YBL"

\* C8: a session of the orchestrator holds one upi_id item per handle value,
\* also when the handle comes in the messages of two or more turns.
C8_HandleStoredOnce ==
    \A id \in DOMAIN active_sessions :
      \A i, j \in 1..Len(active_sessions[id].intelligence) :
         /\ active_sessions[id].intelligence[i].data_type = "upi_id"
         /\ active_sessions[id].intelligence[j].data_type = "upi_id"
         /\ active_sessions[id].intelligence[i].value = active_sessions[id].intelligence[j].value
         => i = j

\* C9: the n-th message sent with one caller-supplied session id is processed
\* as turn n of that id's session, with the earlier turns as its history, and
\* no session is deleted (a session reached under two ids is left aside).
C9_SessionReused ==
    \A i \in 1..Len(returned) :
      /\ returned[i].session_id \in DOMAIN active_sessions
      /\ (\A j \in 1..(i - 1) : returned[j].session_id = returned[i].session_id
                                    => returned[j].arg_id = returned[i].arg_id)
         => /\ returned[i].turn_count
                 = Cardinality({j \in 1..i : returned[j].arg_id = returned[i].arg_id})
            /\ returned[i].history
                 = 2 * Cardinality({j \in 1..(i - 1) : /\ returned[j].arg_id = returned[i].arg_id
                                                         /\ ~returned[j].raised})
                   + Cardinality({j \in 1..(i - 1) : /\ returned[j].arg_id = returned[i].arg_id
                                                       /\ returned[j].raised})

\* the weights as the documentation lists them
ListedWeight(event_type) ==
    IF event_type \in {"repetition_request", "clarification_needed", "delay_tactic"} THEN 2
    ELSE IF event_type = "technical_error" THEN 3
    ELSE IF event_type = "wrong_information" THEN 4
    ELSE 1

RECURSIVE ListedSum(_, _)
ListedSum(B, rows) ==
    IF rows = {} THEN 0
    ELSE LET r == CHOOSE q \in rows : TRUE
         IN  B[r] * ListedWeight(r.event_type) + ListedSum(B, rows \ {r})

\* the rows of one session
RowsOf(B, session_id) == {r \in DOMAIN B : r.session_id = session_id}

\* C10: calculate_score gives min(100, 5 * the sum of the listed weights of the
\* session's events); it is in 0..100, adding events never lowers it, and the
\* events of another session do not change it.
C10_FatigueScore ==
    /\ [](\A x \in FatigueSessions :
            /\ calculate_score(fatigue_events, x)
                 = Min2(100, 5 * ListedSum(fatigue_events, RowsOf(fatigue_events, x)))
            /\ calculate_score(fatigue_events, x) \in 0..100
            /\ fatigue_scores[x] \in 0..100)
    /\ [][\A x \in FatigueSessions :
            /\ calculate_score(fatigue_events', x) >= calculate_score(fatigue_events, x)
            /\ fatigue_scores'[x] >= fatigue_scores[x]
            /\ (\A r \in RowsOf(fatigue_events', x) :
                   r \in DOMAIN fatigue_events /\ fatigue_events'[r] = fatigue_events[r])
                 => calculate_score(fatigue_events', x) = calculate_score(fatigue_events, x)]_vars

\* a session whose weights sum to more than 20 has the score 100 stored, the
\* other session's score is still 0
C10_Witness ==
    \E x, y \in FatigueSessions :
        /\ x # y
        /\ SumContribution(fatigue_events, x) > 20
        /\ fatigue_scores[x] = 100
        /\ fatigue_scores[y] = 0

\* C11: on the empty string ScamAnalyzer.analyze gives category unknown, threat
\* level 0, should_engage false and persona neutral.
C11_AnalyzeEmpty ==
    probe.fn = "analyze" /\ probe.text = "" =>
        /\ probe.out.primary_scam_type = "unknown"
        /\ probe.out.threat_level = 0
        /\ ~probe.out.should_engage
        /\ probe.out.scammer_persona = "neutral"

\* the signals of a message as the documentation lists them
SignalCount(a, text) ==
    SumSeq(a.scam_scores)
      + (IF a.has_payment_request THEN 1 ELSE 0)
      + (IF a.urgency THEN 1 ELSE 0)
      + Hits(<<"block", "suspend", "arrest", "police">>, text)
      + Len(FindIter("numbers_pattern", text))

\* the threat level as the documentation computes it
ListedThreat(a, text) ==
    IF SignalCount(a, text) = 0 THEN 0
    ELSE Min2(10, Max2(3, Min2(10, SumSeq(a.scam_scores))
                            + (IF a.has_payment_request THEN 3 ELSE 0)
                            + (IF a.urgency THEN 2 ELSE 0)
                            + (IF Hits(<<"block", "suspend", "arrest", "police">>, text) > 0
                               THEN 2 ELSE 0)
                            + (IF Len(FindIter("numbers_pattern", text)) > 0 THEN 1 ELSE 0)))

\* C12: threat_level is the clamped bucket sum plus the bonuses, clamped to 3..10
\* when a signal fired, and 0 when none fired; it is always in 0..10.
C12_ThreatLevelFormula ==
    probe.fn = "analyze" =>
        /\ probe.out.threat_level = ListedThreat(probe.out, probe.text)
        /\ probe.out.threat_level \in 0..10

\* C13: two or more command or urgency markers in total give persona aggressive
\* and an answer of confused_elderly; else two or more politeness markers give
\* polite and eager_victim; else neutral and technical_struggler.
C13_PersonaMirroring ==
    probe.fn = "select_response" =>
        LET command == Hits(aggressive_indicators, probe.text) + Hits(urgency_keywords, probe.text)
            polite  == Hits(polite_indicators, probe.text)
        IN  IF command >= 2
            THEN /\ probe.out.scammer_persona = "aggressive"
                 /\ probe.response \in Range(PERSONA_TYPES.confused_elderly)
            ELSE IF polite >= 2
            THEN /\ probe.out.scammer_persona = "polite"
                 /\ probe.response \in Range(PERSONA_TYPES.eager_victim)
            ELSE /\ probe.out.scammer_persona = "neutral"
                 /\ probe.response \in Range(PERSONA_TYPES.technical_struggler)

\* the values of the items of one data type, in order
ValuesOf(items, data_type) ==
    [k \in 1..Len(SelectSeq(items, LAMBDA i : i.data_type = data_type)) |->
        SelectSeq(items, LAMBDA i : i.data_type = data_type)[k].value]

\* C14: on the example text extract_all gives one upi_id item, 9876543210@paytm,
\* one phone_number item, 9876543210, and no bank_account item.
C14_ExampleExtraction ==
    probe.fn = "extract_all" /\ probe.text = ExampleText =>
        /\ ValuesOf(probe.out, "upi_id") = <<"9876543210@paytm">>
        /\ ValuesOf(probe.out, "phone_number") = <<"9876543210">>
        /\ ValuesOf(probe.out, "bank_account") = <<>>

\* extract_all has been called on the example text
C14_Witness ==
    /\ probe.fn = "extract_all"
    /\ probe.text = ExampleText
    /\ Len(probe.out) = 2

\* C15: the bank-account candidates of IntelligenceExtractor.extract_all are the
\* standalone digit runs of length 9 and of length 11 to 18; a run of 10 digits
\* is never one.
C15_BankAccountCandidates ==
    probe.fn = "full_extract_all" =>
        \A shape \in {"alone", "words"}, n \in RunLengths :
            probe.text = AccountText(shape, n) =>
                probe.out.bank_accounts = IF n = 9 \/ (n >= 11 /\ n <= 18) THEN <<Run(n)>> ELSE <<>>

\* C16: a 10-digit mobile number that starts with 6-9, bare or after +91 or 91,
\* is in phoneNumbers of extract, once, with only the country code removed.
C16_MobileNumberExtracted ==
    probe.fn = "extract" =>
        \A shape \in {"alone", "words"}, code \in CountryCodes, number \in MobileNumbers :
            probe.text = PhoneText(shape, code, number) =>
                probe.out.phoneNumbers = <<number>>

\* C17: generate_response never raises; it makes at most 3 attempts with the
\* timeouts 15, 10, 8 in that order, returns the reply of the first attempt that
\* succeeds, and after 3 failed attempts returns the template fallback reply
C17_BoundedRetryNeverRaises ==
    /\ agent.pc # "raised"
    /\ agent.pc \in {"attempt", "returned"} =>
         /\ Len(agent.timeouts) <= 3
         /\ agent.timeouts = SubSeq(<<15, 10, 8>>, 1, Len(agent.timeouts))
         /\ \A k \in 1..(Len(agent.outcomes) - 1) : agent.outcomes[k] \in Failures
    /\ agent.pc = "returned" /\ agent.via = "backend" =>
         agent.outcomes[Len(agent.outcomes)] = "ok"
    /\ agent.pc = "returned" /\ agent.via = "fallback" =>
         /\ Len(agent.outcomes) = 3
         /\ agent.outcomes[3] \in Failures
         /\ agent.result \in Range(fallback_responses(agent.enhanced, agent.scam_type))
    /\ agent.pc = "returned" => agent.via \in {"backend", "fallback"}


\* the response table of a category: the response hooks of SCAM_PATTERNS in
\* enhanced mode, else the built-in templates, those of 'unknown' for a category
\* that has none
CategoryTable(enhanced, category) ==
    IF enhanced /\ category \in {SCAM_PATTERN_TYPES[k] : k \in 1..Len(SCAM_PATTERN_TYPES)}
    THEN SCAM_PATTERNS[category].response_hooks
    ELSE IF category \in {"bank_fraud", "upi_fraud", "phishing"}
    THEN fallback_templates[category]
    ELSE fallback_templates.unknown

C19_FaultDegradesToSafeReply ==
    last.kind = "fault" =>
      /\ ~last.escaped
      /\ last.reply.status = "success"
      /\ last.reply.reply # ""
      /\ ~last.reply.scamDetected

\* C20: for an empty or missing inbound message process_message_internal
\* returns status success with scamDetected false and threatLevel 0, and leaves
\* the session registry unchanged: no session is created, no turn_count,
\* intelligence or message list is modified, no callback is sent
C20_EmptyRequestNeutral ==
    [][last'.kind = "empty" =>
         /\ last'.reply.status = "success"
         /\ ~last'.reply.scamDetected
         /\ last'.reply.threatLevel = 0
         /\ sessions' = sessions
         /\ callbacks' = callbacks
         /\ autos' = autos]_vars

\* an empty request came to a registry with a session that has reported, and
\* the session has its one report
C20_Witness ==
    /\ last.kind = "empty"
    /\ last.reply.reply = "Please send your message."
    /\ \E x \in DOMAIN sessions : sessions[x].callback_sent /\ Len(callbacks[x]) = 1

Inbound(session) ==
    SelectSeq(session.messages, LAMBDA msg : msg.sender # "honeypot")

\* the threat level detect_scam_type gives a text
ThreatOf(facts, text) == (CHOOSE f \in facts : f.text = text).detected[2]

\* the session holds what its own inbound messages give
OwnHistory(session, own, facts) ==
    /\ session.turn_count = Len(own)
    /\ Len(session.messages) = 2 * Len(own)
    /\ session.threat_level = MaxOf({ThreatOf(facts, own[k].text) : k \in 1..Len(own)})
    /\ own # <<>> => session.scam_detected = (ThreatOf(facts, own[Len(own)].text) >= 5)

\* C22: a handle_message call for one session leaves every field of every
\* other session, and its reports, unchanged; what a session holds is given by
\* its own inbound messages, whatever turns of other sessions came in between
C22_SessionsIndependent ==
    [][/\ \A b \in DOMAIN sessions :
            b # last'.session_id =>
              /\ b \in DOMAIN sessions'
              /\ sessions'[b] = sessions[b]
              /\ callbacks'[b] = callbacks[b]
       /\ \A facts \in {FactsIn(DeliverTexts)} :
            \A b \in DOMAIN sessions' :
              OwnHistory(sessions'[b], Inbound(sessions'[b]), facts)]_vars

\* a turn of A came between two turns of B, and B has been scored a scam
C22_Witness ==
    /\ DOMAIN sessions = PairIds
    /\ sessions["B"].turn_count = 2
    /\ sessions["A"].turn_count = 1
    /\ last.session_id = "B"
    /\ sessions["B"].threat_level > sessions["A"].threat_level

\* the categories of the dictionary extract returns
ExtractKeys == IntelKeys \cup {"emailAddresses"}

\* C23: extract never returns empty: for every text at least one category of the
\* returned dictionary is non-empty
C23_ExtractNeverEmpty ==
    probe.fn = "extract" => \E k \in ExtractKeys : Len(probe.out[k]) > 0

\* the payment handle written in a text, lower-cased
HandleIn(text) ==
    IF text \in {"urgent otp Abc@YBL", "pay abc@ybl now"} THEN "abc@ybl" ELSE ""

\* C24: after /call/start for a call id, every /call/text request for that call
\* id whose text contains a payment handle returns a non-empty response_text, a
\* threat_level, and an intelligence list with an item of data_type 'upi_id'
\* whose value is the handle lower-cased
C24_CallTextReportsHandle ==
    (/\ probe.fn = "process_text"
     /\ probe.started
     /\ HandleIn(probe.text) # "") =>
       /\ DOMAIN probe.out = {"response_text", "intelligence", "threat_level"}
       /\ probe.out.response_text # ""
       /\ \E k \in 1..Len(probe.out.intelligence) :
            /\ probe.out.intelligence[k].data_type = "upi_id"
            /\ probe.out.intelligence[k].value = HandleIn(probe.text)

\* the inbound messages of the orchestrator's session of a call
VoiceInbound(as, vs, call_id) ==
    SelectSeq(as[vs[call_id].session_id].messages, LAMBDA msg : msg.sender = "scammer_voice")

\* C26: each process_text call for a known call id increases the turn_count of
\* the orchestrator's session by exactly one and appends the inbound message to
\* the history exactly once, also when the first handle_message attempt raises
\* or gives an empty response and the call is retried
C26_OneTurnPerProcessText ==
    [][(/\ session_seq' = session_seq
        /\ active_sessions' # active_sessions) =>
         /\ probe'.fn = "process_text" /\ probe'.started
         /\ active_sessions'[voice_sessions[probe'.call_id].session_id].turn_count =
              active_sessions[voice_sessions[probe'.call_id].session_id].turn_count + 1
         /\ Len(VoiceInbound(active_sessions', voice_sessions, probe'.call_id)) =
              Len(VoiceInbound(active_sessions, voice_sessions, probe'.call_id)) + 1]_vars

\* the message hits no indicator and no urgency word
NoIndicator(text) ==
    \A word \in Range(bank_indicators) \cup Range(upi_indicators)
                  \cup Range(phishing_indicators) \cup Range(urgency) :
      ~Contains(Lower(text), word)

\* the inbound text of the latest turn
LastText == sessions[last.session_id].messages[Len(sessions[last.session_id].messages) - 1].text

\* C25: for a message that hits no indicator detect_scam_type returns 'unknown'
\* with threat level 0, and such a message handled on a fresh session leaves
\* the session's scam_type at 'unknown'
C25_NoHitsIsUnknown ==
    (last.kind = "turn" /\ NoIndicator(LastText)) =>
      /\ last.result.scam_type = "unknown"
      /\ last.result.threat_level = 0
      /\ last.result.turn_count = 1 => sessions[last.session_id].scam_type = "unknown"

\* C27: the threat level in the result of each handle_message call, and the
\* threatLevel of the API reply, equal the session's stored threat_level after
\* that turn
C27_ReportedThreatIsSessionThreat ==
    last.kind = "turn" =>
      /\ last.result.threat_level = sessions[last.session_id].threat_level
      /\ last.reply.threatLevel = sessions[last.session_id].threat_level

\* C28: after handle_message every value of every category extract returned
\* for the message, emailAddresses included, is in the session's intelligence
\* under its category
C28_NothingExtractedIsLost ==
    last.kind = "turn" =>
      \A facts \in FactsIn({LastText}) :
        \A extracted \in facts.extracts, k \in ExtractKeys :
          \A value \in Range(extracted[k]) :
            /\ k \in DOMAIN sessions[last.session_id].intelligence
            /\ value \in Range(sessions[last.session_id].intelligence[k])

\* C29: every value of upiIds that extract returns occurs, compared without
\* case, as a substring of the text
C29_HandlesAreWritten ==
    probe.fn = "extract" =>
      \A value \in Range(probe.out.upiIds) : Contains(Lower(probe.text), value)

\* C30: whenever send_callback composes a payload, totalMessagesExchanged
\* equals the session's turn_count at that moment, for every sender label the
\* inbound messages were submitted with
C30_PayloadCountsInboundMessages ==
    \A x \in DOMAIN callbacks :
      \A k \in 1..Len(callbacks[x]) :
        callbacks[x][k].payload.totalMessagesExchanged = callbacks[x][k].turn

====
